---- MODULE Spec2Model ----
(***************************************************************************)
(* A model of mo11y: the retention worker (StartCleanupWorker/runCleanup), *)
(* the telemetry tables it prunes, the ingest paths that fill them, the    *)
(* read-only handlers, and the admission gates in front of the handlers.   *)
(* Time is counted in hours: one step of the clock is one hour.            *)
(***************************************************************************)
EXTENDS Integers, Sequences, FiniteSets, TLC

\* ------------------------------------------------------------------------
\* Bounds of the model
\* ------------------------------------------------------------------------
MaxClock == 2
MaxIngest == 1
MaxRetentionHours == 1
MaxPermits == 2
MaxKeys == 2

\* ------------------------------------------------------------------------
\* Program constants
\* ------------------------------------------------------------------------
\* a guard channel that holds two tokens
CleanupRunningCap_two == 1 + 1

\* make(chan struct{}, 1)
CleanupRunningCap == 1

\* the goroutines that run StartCleanupWorker on the one store
Workers == {"w1", "w2"}

\* the goroutine of "go store.StartCleanupWorker(ctx, retentionCfg)" in main
MainWorker == "w1"

\* the tables in the order runCleanup deletes from them
CleanupTables == <<"span_events", "span_links", "spans", "logs", "metrics">>

TableNames == {CleanupTables[k] : k \in 1..Len(CleanupTables)}

\* the appenders of each store call, in the order the call flushes them
IngestTables(kind) ==
  CASE kind = "traces" -> <<"spans", "span_events", "span_links">>
    [] kind = "logs" -> <<"logs">>
    [] kind = "metrics" -> <<"metrics">>

IngestKinds == {"traces", "logs", "metrics"}

\* MO11Y_RETENTION_HOURS as getEnvInt reads it: any integer, negative too
RetentionHoursValues == -1..MaxRetentionHours

NoResult == [none |-> TRUE]

\* the goroutines net/http runs, one per request being served
Requests == {"r1", "r2", "r3"}

IdleRequest == [pc |-> "idle"]

NoCycle ==
  [start |-> 0, cutoff |-> 0, failed |-> "none",
   snapshot |-> [t \in TableNames |-> {}],
   pending |-> [t \in TableNames |-> {}],
   prevLast |-> NoResult]

IdleIngest == [pc |-> "idle", kind |-> "logs", now |-> 0, idx |-> 0, id |-> 0]

VARIABLES
  retentionHours,   \* cfg.RetentionHours
  ctxCancelled,     \* the worker context has been cancelled
  clock,            \* time.Now(), in hours
  tables,           \* committed rows of each telemetry table
  cleanupRunning,   \* number of tokens in Storage.cleanupRunning
  lastCleanup,      \* Storage.lastCleanup
  pc,               \* position of each worker goroutine
  cyc,              \* the locals of each worker's runCleanup call
  skipLogged,       \* the worker's last call logged "already in progress"
  ing,              \* the ingest request in progress
  nextId,           \* number of ingest requests started
  lastResp          \* the last response of a read-only handler

storeVars == <<retentionHours, ctxCancelled, clock, tables, cleanupRunning,
               lastCleanup, pc, cyc, skipLogged, ing, nextId, lastResp>>

VARIABLES
  authEnabled,          \* authProvider != nil
  maxConcurrentIngest,  \* cfg.MaxConcurrentIngest
  maxConcurrentQuery,   \* cfg.MaxConcurrentQuery
  permits,              \* permits held in ingestSem and in querySem
  req                   \* the HTTP requests in flight

gateVars == <<authEnabled, maxConcurrentIngest, maxConcurrentQuery, permits, req>>

VARIABLES
  bootstrapKey,   \* MO11Y_BOOTSTRAP_KEY
  authPc,         \* how far main has come with the auth provider
  apiKeys,        \* the rows of api_keys, in insertion order
  touch,          \* the last_used_at updates ValidateKey has started
  hasCall         \* a call of Scope.Has: its arguments and its result

authVars == <<bootstrapKey, authPc, apiKeys, touch, hasCall>>

VARIABLES
  otlp,           \* one call of StoreTraces, StoreLogs or StoreMetrics and its answer
  qry,            \* one statement submitted to POST /query
  hreq            \* one request body on its way through the filters

VARIABLES
  shutdown,       \* how far main has come after SIGINT / SIGTERM
  scopeCall       \* a call of Scope.String or ParseScopes and its result

mainVars == <<shutdown, scopeCall>>

ioVars == <<otlp, qry, hreq, mainVars>>

vars == <<storeVars, gateVars, authVars, ioVars>>

\* ------------------------------------------------------------------------
\* Helpers
\* ------------------------------------------------------------------------
\* a cutoff one hour too early
Cutoff_early(start, hours) == start - hours - 1

\* cutoff := start.Add(-time.Duration(retentionHours) * time.Hour)
Cutoff(start, hours) == start - hours

\* a DELETE whose comparison is not strict
OldRows_inclusive(rows, cutoff) == {r \in rows : r.at <= cutoff}

\* DELETE FROM t WHERE ingested_at < cutoff
OldRows(rows, cutoff) == {r \in rows : r.at < cutoff}

\* a send that never finds the channel full
GuardFree_always == TRUE

\* the non-blocking send "case s.cleanupRunning <- struct{}{}" succeeds
GuardFree == cleanupRunning < CleanupRunningCap

\* Enabled: retentionCfg.RetentionHours > 0
StatsEnabled(hours) == hours > 0

\* cfg.RetentionHours == 0: "Retention disabled, cleanup worker not started"
WorkerDisabled(hours) == hours = 0

\* a SQL call on a cancelled context fails; any call may fail otherwise
SqlOutcomes == IF ctxCancelled THEN {FALSE} ELSE {TRUE, FALSE}

\* worker w holds the guard: it is between lines 319 and the deferred release
InCycle(w) == pc[w] \in {"tx", "commit", "checkpoint", "exit"}

\* ------------------------------------------------------------------------
\* Initial state
\* ------------------------------------------------------------------------
StoreInit ==
  /\ retentionHours \in RetentionHoursValues
  /\ ctxCancelled = FALSE
  /\ clock = 0
  /\ tables = [t \in TableNames |-> {}]
  /\ cleanupRunning = 0
  /\ lastCleanup = NoResult
  /\ pc = [w \in Workers |-> "start"]
  /\ cyc = [w \in Workers |-> NoCycle]
  /\ skipLogged = [w \in Workers |-> FALSE]
  /\ ing = IdleIngest
  /\ nextId = 0
  /\ lastResp = [op |-> "none"]

\* no HTTP request is modelled: the gates stay as the server creates them
GateIdle ==
  /\ authEnabled = FALSE
  /\ maxConcurrentIngest = 1
  /\ maxConcurrentQuery = 1
  /\ permits = [g \in {"ingest", "query"} |-> 0]
  /\ req = [r \in Requests |-> IdleRequest]

\* no key store is open and Scope.Has is not under study
AuthIdle ==
  /\ bootstrapKey = <<>>
  /\ authPc = "off"
  /\ apiKeys = <<>>
  /\ touch = {}
  /\ hasCall = [s |-> 0, r |-> 0, called |-> FALSE, result |-> FALSE]

\* no signal has arrived and no scope is rendered or parsed
MainIdle ==
  /\ shutdown = [pc |-> "serving"]
  /\ scopeCall = [pc |-> "idle"]

\* no ingest call, statement or request body is under study
IoIdle ==
  /\ otlp = [pc |-> "idle"]
  /\ qry = [pc |-> "idle"]
  /\ hreq = [pc |-> "idle"]
  /\ MainIdle

Init == StoreInit /\ GateIdle /\ AuthIdle /\ IoIdle

\* ------------------------------------------------------------------------
\* StartCleanupWorker
\* ------------------------------------------------------------------------
\* a worker that goes to its ticker without the run of line 299
AfterStart_norun(hours) == IF WorkerDisabled(hours) THEN "returned" ELSE "wait"

\* lines 287-299: return at once when disabled, else call runCleanup
AfterStart(hours) == IF WorkerDisabled(hours) THEN "returned" ELSE "runCleanup"

WorkerStart(w) ==
  /\ pc[w] = "start"
  /\ pc' = [pc EXCEPT ![w] = AfterStart(retentionHours)]
  /\ UNCHANGED <<ioVars, authVars, gateVars, retentionHours, ctxCancelled, clock, tables, cleanupRunning,
                 lastCleanup, cyc, skipLogged, ing, nextId, lastResp>>

\* case <-ticker.C: s.runCleanup(ctx, cfg.RetentionHours)
WorkerTick(w) ==
  /\ pc[w] = "wait"
  /\ pc' = [pc EXCEPT ![w] = "runCleanup"]
  /\ skipLogged' = [skipLogged EXCEPT ![w] = FALSE]
  /\ UNCHANGED <<ioVars, authVars, gateVars, retentionHours, ctxCancelled, clock, tables, cleanupRunning,
                 lastCleanup, cyc, ing, nextId, lastResp>>

\* case <-ctx.Done(): return
WorkerStop(w) ==
  /\ pc[w] = "wait"
  /\ ctxCancelled
  /\ pc' = [pc EXCEPT ![w] = "returned"]
  /\ UNCHANGED <<ioVars, authVars, gateVars, retentionHours, ctxCancelled, clock, tables, cleanupRunning,
                 lastCleanup, cyc, skipLogged, ing, nextId, lastResp>>

\* main: cancel()
Cancel ==
  /\ ~ctxCancelled
  /\ ctxCancelled' = TRUE
  /\ UNCHANGED <<ioVars, authVars, gateVars, retentionHours, clock, tables, cleanupRunning,
                 lastCleanup, pc, cyc, skipLogged, ing, nextId, lastResp>>

\* ------------------------------------------------------------------------
\* runCleanup
\* ------------------------------------------------------------------------
\* lines 318-329: try the guard; on success fix start, cutoff and the result
RunCleanupAcquire(w) ==
  /\ pc[w] = "runCleanup"
  /\ IF GuardFree
     THEN /\ cleanupRunning' = cleanupRunning + 1
          /\ cyc' = [cyc EXCEPT ![w] =
                       [NoCycle EXCEPT !.start = clock,
                                       !.cutoff = Cutoff(clock, retentionHours),
                                       !.prevLast = lastCleanup]]
          /\ pc' = [pc EXCEPT ![w] = "tx"]
          /\ UNCHANGED skipLogged
     ELSE /\ pc' = [pc EXCEPT ![w] = "wait"]
          /\ skipLogged' = [skipLogged EXCEPT ![w] = TRUE]
          /\ UNCHANGED <<cleanupRunning, cyc>>
  /\ UNCHANGED <<ioVars, authVars, gateVars, retentionHours, ctxCancelled, clock, tables,
                 lastCleanup, ing, nextId, lastResp>>

\* where the SQL of lines 332-358 can fail: 0 is BeginTx, k the k-th DELETE,
\* Len(CleanupTables) + 1 is no failure; on a cancelled context BeginTx fails
TxFailPoints ==
  IF ctxCancelled THEN {0} ELSE 0..(Len(CleanupTables) + 1)

\* the rows the transaction's DELETEs remove, table by table: the statements
\* run on the snapshot the transaction took when it began
TxDeletes(snapshot, cutoff) ==
  [t \in TableNames |-> OldRows(snapshot[t], cutoff)]

\* lines 332-358: BeginTx and the five DELETEs. The transaction's deletes
\* are invisible to every other connection until it commits, so the
\* statements are one step; a failing DELETE rolls the transaction back.
RunCleanupTx(w) ==
  /\ pc[w] = "tx"
  /\ \E failAt \in TxFailPoints :
       IF failAt = 0
       THEN /\ cyc' = [cyc EXCEPT ![w].failed = "begin"]
            /\ pc' = [pc EXCEPT ![w] = "exit"]
       ELSE IF failAt <= Len(CleanupTables)
       THEN /\ cyc' = [cyc EXCEPT ![w].failed = "delete",
                                  ![w].snapshot = tables]
            /\ pc' = [pc EXCEPT ![w] = "exit"]
       ELSE /\ cyc' = [cyc EXCEPT ![w].snapshot = tables,
                                  ![w].pending = TxDeletes(tables, cyc[w].cutoff)]
            /\ pc' = [pc EXCEPT ![w] = "commit"]
  /\ UNCHANGED <<ioVars, authVars, gateVars, retentionHours, ctxCancelled, clock, tables, cleanupRunning,
                 lastCleanup, skipLogged, ing, nextId, lastResp>>

\* a commit that loses the deletes of the metrics table
ApplyDeletes_partial(t, rows, gone) == IF t = "metrics" THEN rows ELSE rows \ gone

\* what a committed transaction leaves of table t
ApplyDeletes(t, rows, gone) == rows \ gone

\* a failed Commit without the return of line 362
CommitErrorNext_fallthrough == "checkpoint"

\* line 360-363: after a failed Commit runCleanup returns
CommitErrorNext == "exit"

\* lines 360-363: tx.Commit
RunCleanupCommit(w) ==
  /\ pc[w] = "commit"
  /\ \E ok \in SqlOutcomes :
       IF ok
       THEN /\ tables' = [t \in TableNames |->
                            ApplyDeletes(t, tables[t], cyc[w].pending[t])]
            /\ pc' = [pc EXCEPT ![w] = "checkpoint"]
            /\ UNCHANGED cyc
       ELSE /\ cyc' = [cyc EXCEPT ![w].failed = "commit"]
            /\ pc' = [pc EXCEPT ![w] = CommitErrorNext]
            /\ UNCHANGED tables
  /\ UNCHANGED <<ioVars, authVars, gateVars, retentionHours, ctxCancelled, clock, cleanupRunning,
                 lastCleanup, skipLogged, ing, nextId, lastResp>>

\* lines 366-368: a failed CHECKPOINT is logged and the cycle goes on
CheckpointAborts(ok) == FALSE

\* the CleanupResult built by lines 329, 357 and 370
CleanupResult(c, now) ==
  [Timestamp |-> c.start, Duration |-> now - c.start,
   Deleted |-> [t \in TableNames |-> Cardinality(c.pending[t])]]

\* lines 366-371: CHECKPOINT, then result.Duration = time.Since(start) and
\* s.lastCleanup = result
RunCleanupCheckpoint(w) ==
  /\ pc[w] = "checkpoint"
  /\ \E ok \in SqlOutcomes :
       /\ cyc' = [cyc EXCEPT ![w].failed = IF ok THEN @ ELSE "checkpoint"]
       /\ lastCleanup' = IF CheckpointAborts(ok)
                         THEN lastCleanup
                         ELSE CleanupResult(cyc[w], clock)
  /\ pc' = [pc EXCEPT ![w] = "exit"]
  /\ UNCHANGED <<ioVars, authVars, gateVars, retentionHours, ctxCancelled, clock, tables, cleanupRunning,
                 skipLogged, ing, nextId, lastResp>>

\* a release that only the successful exit makes
Released_onlyOnSuccess(failed) == IF failed = "none" THEN 1 ELSE 0

\* the receives the deferred function of line 320 makes when runCleanup
\* returns: the defer is registered once the guard is acquired, before any
\* return statement, so it runs on every exit, whatever failed
Released(failed) == 1

\* the return of runCleanup: the deferred "<-s.cleanupRunning" of line 320
RunCleanupRelease(w) ==
  /\ pc[w] = "exit"
  /\ cleanupRunning' = cleanupRunning - Released(cyc[w].failed)
  /\ pc' = [pc EXCEPT ![w] = "wait"]
  /\ cyc' = [cyc EXCEPT ![w] = NoCycle]
  /\ UNCHANGED <<ioVars, authVars, gateVars, retentionHours, ctxCancelled, clock, tables,
                 lastCleanup, skipLogged, ing, nextId, lastResp>>

\* ------------------------------------------------------------------------
\* Time
\* ------------------------------------------------------------------------
Tick ==
  /\ clock < MaxClock
  /\ clock' = clock + 1
  /\ UNCHANGED <<ioVars, authVars, gateVars, retentionHours, ctxCancelled, tables, cleanupRunning,
                 lastCleanup, pc, cyc, skipLogged, ing, nextId, lastResp>>

\* ------------------------------------------------------------------------
\* Ingest: StoreTraces, StoreLogs, StoreMetrics as the tables see them
\* ------------------------------------------------------------------------
\* now := time.Now(); every row of the request carries it as ingested_at
IngestBegin ==
  /\ ing.pc = "idle"
  /\ nextId < MaxIngest
  /\ \E kind \in IngestKinds :
       ing' = [pc |-> "flush", kind |-> kind, now |-> clock,
               idx |-> 1, id |-> nextId + 1]
  /\ nextId' = nextId + 1
  /\ UNCHANGED <<ioVars, authVars, gateVars, retentionHours, ctxCancelled, clock, tables, cleanupRunning,
                 lastCleanup, pc, cyc, skipLogged, lastResp>>

\* rows stamped with the time of the Flush that commits them
RowTime_atFlush(callNow, flushNow) == flushNow

\* the ingested_at of a row: the `now` the store call took at its start
\* (traces.go line 61), passed to every AppendRow of the call, whenever the
\* appender holding the row is flushed
RowTime(callNow, flushNow) == callNow

\* one Flush of the store call: the appender's rows are committed, or the
\* call returns an infrastructure error and the later appenders are closed
IngestFlush ==
  /\ ing.pc = "flush"
  /\ LET ts == IngestTables(ing.kind)
         t == ts[ing.idx]
         row == [id |-> ing.id, at |-> RowTime(ing.now, clock)]
     IN \E ok \in BOOLEAN :
          IF ok
          THEN /\ tables' = [tables EXCEPT ![t] = @ \cup {row}]
               /\ ing' = IF ing.idx = Len(ts)
                          THEN IdleIngest
                          ELSE [ing EXCEPT !.idx = @ + 1]
          ELSE /\ ing' = IdleIngest
               /\ UNCHANGED tables
  /\ UNCHANGED <<ioVars, authVars, gateVars, retentionHours, ctxCancelled, clock, cleanupRunning,
                 lastCleanup, pc, cyc, skipLogged, nextId, lastResp>>

\* ------------------------------------------------------------------------
\* Read-only handlers
\* ------------------------------------------------------------------------
\* the zero value of time.Time, before every instant of the clock
ZeroTime == -1

\* the fields of a CleanupResult that handleStats reads
CleanupFields == {"Timestamp", "Duration"} \cup TableNames

\* a response without the cleanup section
NoSection == [absent |-> TRUE]

\* the cleanup section handleStats builds from the record r that
\* stats.LastCleanup points to. The worker fills the record (lines 329, 357
\* and 370 of runCleanup) and stores the pointer (line 371) without a lock,
\* an atomic or a channel operation, and Stats loads the pointer and
\* handleStats the fields without one: no happens-before edge orders the
\* worker's writes of a field before the handler's read of it, so the read of
\* each field yields the value the worker wrote or the zero value the
\* allocation left there. `stale` are the fields read as zero values.
CleanupSection(r, stale) ==
  [last_run |-> IF "Timestamp" \in stale THEN ZeroTime ELSE r.Timestamp,
   last_duration_ms |-> IF "Duration" \in stale THEN 0 ELSE r.Duration,
   last_result |-> [t \in TableNames |->
                      IF t \in stale THEN 0 ELSE r.Deleted[t]]]

\* a cycle has stored its record in s.lastCleanup and has not yet returned:
\* until the deferred channel receive of line 320, the first synchronising
\* operation the worker makes after lines 329-371, nothing has forced its
\* writes of the record's fields out to the handler's goroutine
Publishing ==
  \E w \in Workers : pc[w] = "exit" /\ cyc[w].failed \in {"none", "checkpoint"}

\* the cleanup sections a response can carry when s.lastCleanup is `last`
CleanupSections(last, racing) ==
  IF last = NoResult THEN {NoSection}
  ELSE IF racing
  THEN {CleanupSection(last, stale) : stale \in SUBSET CleanupFields}
  ELSE {CleanupSection(last, {})}

\* GET /stats: Stats reads s.lastCleanup, handleStats the record it points to
HandleStats ==
  /\ \E section \in CleanupSections(lastCleanup, Publishing) :
       lastResp' = [op |-> "stats", enabled |-> StatsEnabled(retentionHours),
                    cleanup |-> section]
  /\ lastResp' # lastResp
  /\ UNCHANGED <<ioVars, authVars, gateVars, retentionHours, ctxCancelled, clock, tables, cleanupRunning,
                 lastCleanup, pc, cyc, skipLogged, ing, nextId>>

\* POST /query: a SELECT or WITH statement
HandleQuery ==
  /\ lastResp' = [op |-> "query"]
  /\ lastResp' # lastResp
  /\ UNCHANGED <<ioVars, authVars, gateVars, retentionHours, ctxCancelled, clock, tables, cleanupRunning,
                 lastCleanup, pc, cyc, skipLogged, ing, nextId>>

\* GET /health
HandleHealth ==
  /\ lastResp' = [op |-> "health", status |-> "healthy"]
  /\ lastResp' # lastResp
  /\ UNCHANGED <<ioVars, authVars, gateVars, retentionHours, ctxCancelled, clock, tables, cleanupRunning,
                 lastCleanup, pc, cyc, skipLogged, ing, nextId>>

\* ------------------------------------------------------------------------
\* Specification of the store: retention, ingest and the read-only handlers
\* ------------------------------------------------------------------------
WorkerStep(w) ==
  \/ WorkerStart(w)
  \/ WorkerTick(w)
  \/ WorkerStop(w)
  \/ RunCleanupAcquire(w)
  \/ RunCleanupTx(w)
  \/ RunCleanupCommit(w)
  \/ RunCleanupCheckpoint(w)
  \/ RunCleanupRelease(w)

\* the process as main wires it: one worker goroutine, the ingest and the
\* read-only handlers, the clock and the shutdown's cancel()
Next ==
  \/ WorkerStep(MainWorker)
  \/ Cancel
  \/ Tick
  \/ IngestBegin
  \/ IngestFlush
  \/ HandleStats
  \/ HandleQuery
  \/ HandleHealth

Spec == Init /\ [][Next]_vars

\* concurrent runCleanup calls on one store: every worker goroutine runs
NextTriggers ==
  \/ \E w \in Workers : WorkerStep(w)
  \/ Cancel
  \/ Tick
  \/ IngestBegin
  \/ IngestFlush

SpecTriggers == Init /\ [][NextTriggers]_vars

\* ------------------------------------------------------------------------
\* The admission pipeline: server.New, chain and the filters
\* ------------------------------------------------------------------------
Gates == {"ingest", "query"}

Paths == {"/health", "/stats", "/query", "/v1/traces", "/v1/metrics",
          "/v1/logs", "/admin/keys", "/admin/keys/"}

\* the routes mounted only when auth is enabled
AdminPaths == {"/admin/keys", "/admin/keys/"}

\* a route that sends /v1/logs through the query semaphore
GateOf_logsOnQuery(path) ==
  CASE path \in {"/v1/traces", "/v1/metrics"} -> "ingest"
    [] path \in {"/query", "/v1/logs"} -> "query"
    [] OTHER -> "none"

\* the semaphore server.New wraps around the handler of a path
GateOf(path) ==
  CASE path \in {"/v1/traces", "/v1/metrics", "/v1/logs"} -> "ingest"
    [] path = "/query" -> "query"
    [] OTHER -> "none"

\* semaphores created with the two capacities the wrong way round
GateCapacity_swapped(g) ==
  IF g = "ingest" THEN maxConcurrentQuery ELSE maxConcurrentIngest

\* ingestSem := NewSemaphore(cfg.MaxConcurrentIngest), querySem likewise
GateCapacity(g) ==
  IF g = "ingest" THEN maxConcurrentIngest ELSE maxConcurrentQuery

\* the routes wrapped in authProvider.Middleware and RequireScope
NeedsAuth(path) == authEnabled /\ path # "/health"

\* the semaphore's non-blocking acquisition finds a free permit
SemTryAcquire(g) == permits[g] < GateCapacity(g)

\* the semaphore releases its permit when the handler returns or panics
SemReleases(outcome) == TRUE

\* what gzipMiddleware does with each Content-Encoding: 0 lets it through
GzipStatus(enc) ==
  CASE enc \in {"", "gzip"} -> 0
    [] enc = "badgzip" -> 400
    [] OTHER -> 415

Encodings == {"", "gzip", "badgzip", "zstd"}

\* what auth.Middleware answers for each outcome of the key check
AuthOutcomes == {"ok", "missing", "format", "revoked", "expired", "invalid"}

\* the statuses a handler writes itself
HandlerStatuses(path) ==
  CASE path \in {"/v1/traces", "/v1/metrics", "/v1/logs"} ->
         {200, 400, 405, 415, 500, 503}
    [] path = "/query" -> {200, 400, 405, 500}
    [] path = "/stats" -> {200, 405, 500}
    [] path = "/health" -> {200, 405}
    [] path = "/admin/keys" -> {200, 201, 400, 405, 500}
    [] path = "/admin/keys/" -> {200, 400, 404, 405, 500}

\* how a handler ends: it returns having written a status, or it panics
HandlerOutcomes(path) ==
  {[panic |-> FALSE, status |-> st] : st \in HandlerStatuses(path)}
    \cup {[panic |-> TRUE, status |-> 0]}

\* recoveryMiddleware: a recovered panic is answered 503
\* an answer of 500 to a recovered panic
RecoveryStatus_ise == 503 - 3

RecoveryStatus == 503

Answer(r, by, status) ==
  req' = [req EXCEPT ![r] = [pc |-> "done", by |-> by, status |-> status]]

\* ------------------------------------------------------------------------
\* Scopes: the bitmask of internal/auth/scopes.go
\* ------------------------------------------------------------------------
ScopeIngest == 1
ScopeRead == 2
ScopeAdmin == 4

\* every mask over the three scopes
ScopeMasks == 0..(ScopeIngest + ScopeRead + ScopeAdmin)

\* Go's a & b on non-negative integers
RECURSIVE BitAnd(_, _)
BitAnd(a, b) ==
  IF a = 0 \/ b = 0 THEN 0
  ELSE (a % 2) * (b % 2) + 2 * BitAnd(a \div 2, b \div 2)

\* func (s Scope) Has(required Scope) bool
Has(s, required) ==
  IF BitAnd(s, ScopeAdmin) # 0 THEN TRUE
  ELSE BitAnd(s, required) # 0

\* a call of Scope.Has is about to be made with any two masks
HasInit ==
  hasCall \in [s : ScopeMasks, r : ScopeMasks, called : {FALSE}, result : {FALSE}]

\* the call returns
ScopeHas ==
  /\ ~hasCall.called
  /\ hasCall' = [hasCall EXCEPT !.called = TRUE,
                                !.result = Has(hasCall.s, hasCall.r)]
  /\ UNCHANGED <<ioVars, storeVars, gateVars, bootstrapKey, authPc, apiKeys, touch>>

\* ------------------------------------------------------------------------
\* The key store: package auth
\* ------------------------------------------------------------------------
\* A key is the sequence of its characters. A SHA-256 digest is written as
\* the text it was computed from: two texts have the same digest only if
\* they are the same text.
Null == 0 - 1

\* "mo11y_", the prefix Middleware requires and generateKey writes
Mo11yPrefix == <<"m", "o", "1", "1", "y", "_">>

\* prefix := key[:12]
PrefixLen == 12

\* hex.EncodeToString of the 16 random bytes of generateKey
KeyHexLen == 32

\* a.pepper
Pepper == <<"p", "e", "p">>

\* the keys generateKey can return: the prefix and 32 hex characters
GeneratedKeys == {Mo11yPrefix \o [i \in 1..KeyHexLen |-> c] : c \in {"a", "b"}}

\* values of MO11Y_BOOTSTRAP_KEY: unset, 8 characters, 12 characters, 38
ShortKey == Mo11yPrefix \o <<"a", "b">>
ExactKey == Mo11yPrefix \o <<"b", "o", "o", "t", "1", "2">>
LongKey == Mo11yPrefix \o [i \in 1..KeyHexLen |-> "c"]
BootstrapKeys == {<<>>, ShortKey, ExactKey, LongKey}

\* a value of MO11Y_BOOTSTRAP_KEY of 13 characters that an operator chose
\* freely: Bootstrap and createKeyInternal ask only for 12 characters
PlainKey == <<"s", "e", "c", "r", "e", "t", "-", "a", "d", "m", "i", "n", "1">>

\* a key some client presents that the store has never seen, and a key
\* without the prefix
UnknownKey == Mo11yPrefix \o [i \in 1..KeyHexLen |-> "d"]
BadFormatKey == <<"x", "y", "z">>

\* the key of a row an earlier run of the service left in the store
LegacyKey == Mo11yPrefix \o [i \in 1..KeyHexLen |-> "e"]

\* the ids generateID returns, in the order it returns them
KeyIds == <<"id1", "id2", "id3">>

\* strings.HasPrefix(key, "mo11y_")
HasPrefix(key, prefix) ==
  /\ Len(key) >= Len(prefix)
  /\ SubSeq(key, 1, Len(prefix)) = prefix

\* a digest that leaves the pepper out
hashKey_nopepper(key) == [sha256 |-> key]

\* hashKey: hex(sha256(key + a.pepper))
hashKey(key) == [sha256 |-> key \o Pepper]

\* key[:n] panics when the key has fewer than n characters
SliceInRange(key, n) == Len(key) >= n

\* the rows of the store as a set
KeyRows == {apiKeys[k] : k \in 1..Len(apiKeys)}

\* the row INSERT INTO api_keys writes
NewKeyRow(id, name, key, scopes, now, expiresAt, createdBy) ==
  [id |-> id, name |-> name, key_hash |-> hashKey(key),
   key_prefix |-> SubSeq(key, 1, PrefixLen), scopes |-> scopes,
   created_at |-> now, expires_at |-> expiresAt, revoked_at |-> Null,
   last_used_at |-> Null, created_by |-> createdBy]

\* key_hash TEXT NOT NULL UNIQUE and id TEXT PRIMARY KEY let the INSERT in
InsertAllowed(row) ==
  \A old \in KeyRows : old.key_hash # row.key_hash /\ old.id # row.id

\* ValidateKey that looks at the expiry before the revocation
ValidateKey_expiryFirst(key, now) ==
  LET found == {row \in KeyRows : row.key_hash = hashKey(key)}
  IN IF found = {} THEN [err |-> "invalid key"]
     ELSE LET row == CHOOSE x \in found : TRUE
          IN IF row.expires_at # Null /\ now > row.expires_at
             THEN [err |-> "key expired"]
             ELSE IF row.revoked_at # Null THEN [err |-> "key revoked"]
             ELSE [err |-> "none", ID |-> row.id, Name |-> row.name,
                   Scopes |-> row.scopes]

\* ValidateKey: look the row up by hash; revoked, then expired, then valid
ValidateKey(key, now) ==
  LET found == {row \in KeyRows : row.key_hash = hashKey(key)}
  IN IF found = {} THEN [err |-> "invalid key"]
     ELSE LET row == CHOOSE x \in found : TRUE
          IN IF row.revoked_at # Null THEN [err |-> "key revoked"]
             ELSE IF row.expires_at # Null /\ now > row.expires_at
             THEN [err |-> "key expired"]
             ELSE [err |-> "none", ID |-> row.id, Name |-> row.name,
                   Scopes |-> row.scopes]

\* the switch of Middleware answers every failure with "invalid key"
AuthMessage_generic(err) == "invalid key"

\* the switch on the error of ValidateKey in Middleware
AuthMessage(err) ==
  CASE err = "key revoked" -> "key revoked"
    [] err = "key expired" -> "key expired"
    [] OTHER -> "invalid key"

\* every route asks for the read scope
RequiredScope_readForAll(path) == ScopeRead

\* the scope RequireScope is given for each route of New
RequiredScope(path) ==
  CASE path \in {"/stats", "/query"} -> ScopeRead
    [] path \in {"/v1/traces", "/v1/metrics", "/v1/logs"} -> ScopeIngest
    [] path \in AdminPaths -> ScopeAdmin
    [] OTHER -> 0

\* a revocation that also forgets when the key expires
RevokeRow_clearsExpiry(row, now) ==
  [row EXCEPT !.revoked_at = now, !.expires_at = Null]

\* UPDATE api_keys SET revoked_at = ? on one row
RevokeRow(row, now) == [row EXCEPT !.revoked_at = now]

\* the rows RevokeKey's UPDATE matches: WHERE id = ? AND revoked_at IS NULL
RevokeMatches(keyID) ==
  {k \in 1..Len(apiKeys) : apiKeys[k].id = keyID /\ apiKeys[k].revoked_at = Null}

\* what ListKeys selects of a row and handleListKeys writes of it
ListEntry(row) ==
  [id |-> row.id, name |-> row.name, prefix |-> row.key_prefix,
   scopes |-> row.scopes, created_at |-> row.created_at,
   expires_at |-> row.expires_at, last_used_at |-> row.last_used_at,
   revoked |-> row.revoked_at # Null]

\* the request whose key is followed through the key store
AuthRequests == {"r1"}

\* every key the model knows
AllKeys ==
  (BootstrapKeys \ {<<>>}) \cup GeneratedKeys \cup {LegacyKey, PlainKey}

\* what a client may send as its key: nothing, a malformed key, a key the
\* store does not know, or a key that is in the store
PresentedKeys ==
  {<<>>, BadFormatKey, UnknownKey}
    \cup {k \in AllKeys : \E row \in KeyRows : row.key_hash = hashKey(k)}

\* the scopes a create request may ask for, as ParseScopes reads them
CreateScopes == {0, ScopeRead, ScopeAdmin}

\* the ids a revoke request may name: those of the store and one of no row
RevokeIds == {row.id : row \in KeyRows} \cup {"id9"}

\* the calls a client can make on a path
Calls(path) ==
  CASE path = "/admin/keys" ->
         {[method |-> "GET"]}
           \cup {[method |-> "POST", name |-> "ci", scopes |-> sc] : sc \in CreateScopes}
    [] path = "/admin/keys/" ->
         {[method |-> "DELETE", id |-> id] : id \in RevokeIds}
    [] OTHER -> {[method |-> "ANY"]}

\* the admin key with an expiry that an earlier run issued through CreateKey
LegacyRow ==
  [id |-> "id0", name |-> "legacy", key_hash |-> hashKey(LegacyKey),
   key_prefix |-> SubSeq(LegacyKey, 1, PrefixLen), scopes |-> ScopeAdmin,
   created_at |-> 0, expires_at |-> 1, revoked_at |-> Null,
   last_used_at |-> Null, created_by |-> ""]

AnswerWith(r, by, status, body) ==
  req' = [req EXCEPT ![r] = [pc |-> "done", by |-> by, status |-> status,
                             body |-> body]]

\* what no action of the key store touches
authFrame == <<ioVars, storeVars, authEnabled, maxConcurrentIngest,
               maxConcurrentQuery, permits, bootstrapKey, hasCall>>

\* main has opened the key store and is about to call Bootstrap; the store
\* is new or holds what an earlier run left in it
KeyStoreInit ==
  /\ bootstrapKey \in BootstrapKeys
  /\ authPc = "boot"
  /\ apiKeys \in {<<>>, <<LegacyRow>>}
  /\ touch = {}
  /\ hasCall = [s |-> 0, r |-> 0, called |-> FALSE, result |-> FALSE]

\* Bootstrap, and createKeyInternal when it is reached: key[:12] panics on
\* a key shorter than 12 characters and main dies with it
Bootstrap ==
  /\ authPc = "boot"
  /\ IF bootstrapKey = <<>> \/ Len(apiKeys) > 0
     THEN /\ authPc' = "serving"
          /\ UNCHANGED apiKeys
     ELSE IF ~SliceInRange(bootstrapKey, PrefixLen)
     THEN /\ authPc' = "crashed"
          /\ UNCHANGED apiKeys
     ELSE /\ authPc' = "serving"
          /\ apiKeys' = Append(apiKeys,
               NewKeyRow(KeyIds[Len(apiKeys) + 1], "bootstrap-admin",
                         bootstrapKey, ScopeAdmin, clock, Null, "system"))
  /\ UNCHANGED <<authFrame, req, touch>>

\* the process ends and is started again on the same key store
Restart ==
  /\ authPc \in {"serving", "crashed"}
  /\ \A r \in Requests : req[r].pc = "idle"
  /\ authPc' = "boot"
  /\ touch' = {}
  /\ UNCHANGED <<authFrame, req, apiKeys>>

\* the create requests that have been let in and have not yet answered
CreatesInFlight ==
  {q \in Requests : req[q].pc \in {"auth", "scope", "handler"}
                      /\ req[q].call.method = "POST"}

\* a request with a key has passed the outer filters and the mux; /health
\* is mounted without the auth wrappers and never reads the key
KeyedArrive(r) ==
  /\ authPc = "serving"
  /\ req[r].pc = "idle"
  /\ \E path \in Paths :
       \E key \in (IF path = "/health" THEN {<<>>} ELSE PresentedKeys) :
         \E call \in Calls(path) :
           /\ call.method = "POST" =>
                Len(apiKeys) + Cardinality(CreatesInFlight) < MaxKeys
           /\ req' = [req EXCEPT ![r] =
                        [pc |-> IF NeedsAuth(path) THEN "auth" ELSE "handler",
                         path |-> path, key |-> key, call |-> call]]
  /\ UNCHANGED <<authFrame, authPc, apiKeys, touch>>

\* auth.Middleware with ValidateKey
KeyedAuth(r) ==
  /\ req[r].pc = "auth"
  /\ LET key == req[r].key
         res == ValidateKey(key, clock)
     IN IF key = <<>>
        THEN /\ AnswerWith(r, "auth", 401, [error |-> "missing authorization"])
             /\ UNCHANGED touch
        ELSE IF ~HasPrefix(key, Mo11yPrefix)
        THEN /\ AnswerWith(r, "auth", 401, [error |-> "invalid key format"])
             /\ UNCHANGED touch
        ELSE IF res.err # "none"
        THEN /\ AnswerWith(r, "auth", 401, [error |-> AuthMessage(res.err)])
             /\ UNCHANGED touch
        ELSE /\ req' = [req EXCEPT ![r] =
                          [pc |-> "scope", path |-> req[r].path,
                           call |-> req[r].call,
                           info |-> [ID |-> res.ID, Name |-> res.Name,
                                     Scopes |-> res.Scopes]]]
             /\ touch' = touch \cup {res.ID}
  /\ UNCHANGED <<authFrame, authPc, apiKeys>>

\* the goroutine ValidateKey starts: UPDATE api_keys SET last_used_at
\* UPDATE api_keys SET last_used_at = ? (no WHERE clause): every row
UpdateLastUsed_noWhere(rows, id, now) ==
  [k \in 1..Len(rows) |-> [rows[k] EXCEPT !.last_used_at = now]]

\* UPDATE api_keys SET last_used_at = ? WHERE id = ?
UpdateLastUsed(rows, id, now) ==
  [k \in 1..Len(rows) |->
     IF rows[k].id = id THEN [rows[k] EXCEPT !.last_used_at = now]
                        ELSE rows[k]]

\* the goroutine ValidateKey starts: its Exec either writes the row or fails,
\* and its result is discarded either way
TouchLastUsed ==
  /\ \E id \in touch, ok \in BOOLEAN :
       /\ touch' = touch \ {id}
       /\ apiKeys' = IF ok THEN UpdateLastUsed(apiKeys, id, clock)
                          ELSE apiKeys
  /\ UNCHANGED <<authFrame, authPc, req>>

\* RequireScope
KeyedScope(r) ==
  /\ req[r].pc = "scope"
  /\ IF Has(req[r].info.Scopes, RequiredScope(req[r].path))
     THEN req' = [req EXCEPT ![r].pc = "handler"]
     ELSE AnswerWith(r, "scope", 403, [error |-> "insufficient permissions"])
  /\ UNCHANGED <<authFrame, authPc, apiKeys, touch>>

\* handleListKeys with ListKeys
HandleListKeys(r) ==
  /\ AnswerWith(r, "handler", 200, [keys |-> {ListEntry(row) : row \in KeyRows}])
  /\ UNCHANGED <<apiKeys>>

\* handleCreateKey with CreateKey and createKeyInternal
HandleCreateKey(r) ==
  LET call == req[r].call
  IN IF call.scopes = 0
     THEN /\ AnswerWith(r, "handler", 400,
                        [error |-> "at least one scope required"])
          /\ UNCHANGED apiKeys
     ELSE \E key \in GeneratedKeys :
            LET row == NewKeyRow(KeyIds[Len(apiKeys) + 1], call.name, key,
                                 call.scopes, clock, Null, req[r].info.ID)
            IN IF InsertAllowed(row)
               THEN /\ apiKeys' = Append(apiKeys, row)
                    /\ AnswerWith(r, "handler", 201,
                                  [id |-> row.id, name |-> row.name,
                                   key |-> key, scopes |-> row.scopes])
               ELSE /\ AnswerWith(r, "handler", 500,
                                  [error |-> "constraint failed"])
                    /\ UNCHANGED apiKeys

\* handleRevokeKey with RevokeKey: no row updated is reported as not found
HandleRevokeKey(r) ==
  LET matches == RevokeMatches(req[r].call.id)
  IN IF matches = {}
     THEN /\ AnswerWith(r, "handler", 404, [error |-> "key not found"])
          /\ UNCHANGED apiKeys
     ELSE /\ apiKeys' = [k \in 1..Len(apiKeys) |->
                           IF k \in matches THEN RevokeRow(apiKeys[k], clock)
                           ELSE apiKeys[k]]
          /\ AnswerWith(r, "handler", 200, [status |-> "revoked"])

\* the handler behind the filters
KeyedHandler(r) ==
  /\ req[r].pc = "handler"
  /\ CASE req[r].call.method = "GET" -> HandleListKeys(r)
       [] req[r].call.method = "POST" -> HandleCreateKey(r)
       [] req[r].call.method = "DELETE" -> HandleRevokeKey(r)
       [] OTHER -> /\ AnswerWith(r, "handler", 200, [status |-> "ok"])
                   /\ UNCHANGED apiKeys
  /\ UNCHANGED <<authFrame, authPc, touch>>

\* ------------------------------------------------------------------------
\* The order of the filters: chain and the routes of server.New
\* ------------------------------------------------------------------------
\* A handler is written as the sequence of stages a request runs through;
\* wrapping a middleware around a handler puts its stage in front.
RECURSIVE chainLoop_leftToRight(_, _, _)
chainLoop_leftToRight(h, middlewares, i) ==
  IF i > Len(middlewares) THEN h
  ELSE chainLoop_leftToRight(<<middlewares[i]>> \o h, middlewares, i + 1)

\* a chain that wraps from left to right, so the last middleware runs first
chain_leftToRight(h, middlewares) == chainLoop_leftToRight(h, middlewares, 1)

\* for i := len(middlewares) - 1; i >= 0; i-- { h = middlewares[i](h) }
RECURSIVE chainLoop(_, _, _)
chainLoop(h, middlewares, i) ==
  IF i < 1 THEN h
  ELSE chainLoop(<<middlewares[i]>> \o h, middlewares, i - 1)

chain(h, middlewares) == chainLoop(h, middlewares, Len(middlewares))

\* the middlewares New hands to chain, in the order it lists them
ServerMiddlewares == <<"requestID", "recovery", "sizeLimit", "gzip">>

\* what the mux has mounted on a path; nothing on a path it does not know
RouteFilters(path) ==
  IF path = "/health" THEN <<"handler">>
  ELSE IF ~authEnabled
  THEN IF path \in AdminPaths THEN <<>>
       ELSE IF GateOf(path) # "none" THEN <<"semaphore", "handler">>
       ELSE <<"handler">>
  ELSE IF GateOf(path) # "none" THEN <<"auth", "scope", "semaphore", "handler">>
       ELSE <<"auth", "scope", "handler">>

\* the stages of a request to a path, outermost first
Pipeline(path) == chain(RouteFilters(path), ServerMiddlewares)

GateInit ==
  /\ authEnabled \in BOOLEAN
  /\ maxConcurrentIngest \in 1..MaxPermits
  /\ maxConcurrentQuery \in 1..MaxPermits
  /\ permits = [g \in Gates |-> 0]
  /\ req = [r \in Requests |-> IdleRequest]

\* no worker, ingest or clock is modelled: the store stays as New leaves it
StoreIdle ==
  /\ retentionHours = 0
  /\ ctxCancelled = FALSE
  /\ clock = 0
  /\ tables = [t \in TableNames |-> {}]
  /\ cleanupRunning = 0
  /\ lastCleanup = NoResult
  /\ pc = [w \in Workers |-> "start"]
  /\ cyc = [w \in Workers |-> NoCycle]
  /\ skipLogged = [w \in Workers |-> FALSE]
  /\ ing = IdleIngest
  /\ nextId = 0
  /\ lastResp = [op |-> "none"]

\* a request enters requestID, recovery and sizeLimit and stands before gzip
Arrive(r) ==
  /\ req[r].pc = "idle"
  /\ \E path \in Paths : req' = [req EXCEPT ![r] = [pc |-> "gzip", path |-> path]]
  /\ UNCHANGED <<ioVars, authVars, storeVars, authEnabled, maxConcurrentIngest,
                 maxConcurrentQuery, permits>>

\* the stage after the filters a path's route has in front of the semaphore
AfterGzip(path) ==
  IF path \in AdminPaths /\ ~authEnabled THEN "notfound"
  ELSE IF NeedsAuth(path) THEN "auth"
  ELSE IF GateOf(path) # "none" THEN "sem"
  ELSE "handler"

AfterScope(path) == IF GateOf(path) # "none" THEN "sem" ELSE "handler"

\* gzipMiddleware, then the mux finds the route
GzipFilter(r) ==
  /\ req[r].pc = "gzip"
  /\ \E enc \in Encodings :
       IF GzipStatus(enc) # 0
       THEN Answer(r, "gzip", GzipStatus(enc))
       ELSE IF AfterGzip(req[r].path) = "notfound"
       THEN Answer(r, "mux", 404)
       ELSE req' = [req EXCEPT ![r].pc = AfterGzip(req[r].path)]
  /\ UNCHANGED <<ioVars, authVars, storeVars, authEnabled, maxConcurrentIngest,
                 maxConcurrentQuery, permits>>

\* auth.Middleware: 401 unless the key validates
AuthFilter(r) ==
  /\ req[r].pc = "auth"
  /\ \E res \in AuthOutcomes :
       IF res = "ok"
       THEN req' = [req EXCEPT ![r].pc = "scope"]
       ELSE Answer(r, "auth", 401)
  /\ UNCHANGED <<ioVars, authVars, storeVars, authEnabled, maxConcurrentIngest,
                 maxConcurrentQuery, permits>>

\* RequireScope: 403 unless the key's scopes have the route's scope
ScopeFilter(r) ==
  /\ req[r].pc = "scope"
  /\ \E has \in BOOLEAN :
       IF has
       THEN req' = [req EXCEPT ![r].pc = AfterScope(req[r].path)]
       ELSE Answer(r, "scope", 403)
  /\ UNCHANGED <<ioVars, authVars, storeVars, authEnabled, maxConcurrentIngest,
                 maxConcurrentQuery, permits>>

\* Semaphore.Middleware: take a permit without blocking, or answer 503
SemaphoreFilter(r) ==
  /\ req[r].pc = "sem"
  /\ LET g == GateOf(req[r].path)
     IN IF SemTryAcquire(g)
        THEN /\ permits' = [permits EXCEPT ![g] = @ + 1]
             /\ req' = [req EXCEPT ![r].pc = "handler"]
        ELSE /\ Answer(r, "semaphore", 503)
             /\ UNCHANGED permits
  /\ UNCHANGED <<ioVars, authVars, storeVars, authEnabled, maxConcurrentIngest, maxConcurrentQuery>>

\* the handler returns or panics; the semaphore around it releases its
\* permit and recoveryMiddleware answers a panic
HandlerReturn(r) ==
  /\ req[r].pc = "handler"
  /\ \E out \in HandlerOutcomes(req[r].path) :
       /\ IF out.panic
          THEN Answer(r, "recovery", RecoveryStatus)
          ELSE Answer(r, "handler", out.status)
       /\ LET g == GateOf(req[r].path)
          IN permits' = IF g # "none" /\ SemReleases(out)
                        THEN [permits EXCEPT ![g] = @ - 1]
                        ELSE permits
  /\ UNCHANGED <<ioVars, authVars, storeVars, authEnabled, maxConcurrentIngest, maxConcurrentQuery>>

\* the response is written and the request's goroutine ends
Respond(r) ==
  /\ req[r].pc = "done"
  /\ req' = [req EXCEPT ![r] = IdleRequest]
  /\ UNCHANGED <<ioVars, authVars, storeVars, authEnabled, maxConcurrentIngest,
                 maxConcurrentQuery, permits>>

\* the HTTP server with its requests, each in its own goroutine
NextGate ==
  \/ \E r \in Requests : Arrive(r)
  \/ \E r \in Requests : GzipFilter(r)
  \/ \E r \in Requests : AuthFilter(r)
  \/ \E r \in Requests : ScopeFilter(r)
  \/ \E r \in Requests : SemaphoreFilter(r)
  \/ \E r \in Requests : HandlerReturn(r)
  \/ \E r \in Requests : Respond(r)

\* the server constructed over a store nothing else is using
InitGate == GateInit /\ StoreIdle /\ AuthIdle /\ IoIdle

SpecGate == InitGate /\ [][NextGate]_vars

\* Scope.Has called once on arbitrary masks, nothing else running
InitScope ==
  /\ StoreIdle
  /\ IoIdle
  /\ GateIdle
  /\ bootstrapKey = <<>>
  /\ authPc = "off"
  /\ apiKeys = <<>>
  /\ touch = {}
  /\ HasInit

NextScope == ScopeHas

SpecScope == InitScope /\ [][NextScope]_vars

\* the server with auth enabled over a key store, its requests followed
\* from the auth filter on
InitAuth ==
  /\ StoreIdle
  /\ IoIdle
  /\ authEnabled = TRUE
  /\ maxConcurrentIngest = 1
  /\ maxConcurrentQuery = 1
  /\ permits = [g \in Gates |-> 0]
  /\ req = [r \in Requests |-> IdleRequest]
  /\ KeyStoreInit

NextAuth ==
  \/ Bootstrap
  \/ Restart
  \/ \E r \in AuthRequests : KeyedArrive(r)
  \/ \E r \in AuthRequests : KeyedAuth(r)
  \/ \E r \in AuthRequests : KeyedScope(r)
  \/ \E r \in AuthRequests : KeyedHandler(r)
  \/ \E r \in AuthRequests : Respond(r)
  \/ TouchLastUsed
  \/ Tick

SpecAuth == InitAuth /\ [][NextAuth]_vars

\* the first start of the service: the key store is empty and
\* MO11Y_BOOTSTRAP_KEY is unset or any of the keys above
InitBootstrap ==
  /\ StoreIdle
  /\ IoIdle
  /\ authEnabled = TRUE
  /\ maxConcurrentIngest = 1
  /\ maxConcurrentQuery = 1
  /\ permits = [g \in Gates |-> 0]
  /\ req = [r \in Requests |-> IdleRequest]
  /\ bootstrapKey \in BootstrapKeys \cup {PlainKey}
  /\ authPc = "boot"
  /\ apiKeys = <<>>
  /\ touch = {}
  /\ hasCall = [s |-> 0, r |-> 0, called |-> FALSE, result |-> FALSE]

NextBootstrap ==
  \/ Bootstrap
  \/ \E r \in AuthRequests : KeyedArrive(r)
  \/ \E r \in AuthRequests : KeyedAuth(r)
  \/ \E r \in AuthRequests : KeyedScope(r)
  \/ \E r \in AuthRequests : KeyedHandler(r)
  \/ \E r \in AuthRequests : Respond(r)

SpecBootstrap == InitBootstrap /\ [][NextBootstrap]_vars

\* the fairness of the worker goroutine: each of its calls returns, and the
\* select of lines 305-311 takes the ready ctx.Done() case in the end
LiveSpec ==
  /\ Spec
  /\ WF_vars(WorkerStep(MainWorker))
  /\ SF_vars(WorkerStop(MainWorker))

\* ------------------------------------------------------------------------
\* Properties of the retention worker
\* ------------------------------------------------------------------------
\* the cutoff a cycle of worker w is to use: its start minus retention_hours
CycleCutoff(w) == cyc[w].start - retentionHours

\* the cycle of worker w has committed its transaction
CycleCommitted(w) ==
  \/ pc[w] = "checkpoint"
  \/ pc[w] = "exit" /\ cyc[w].failed \in {"none", "checkpoint"}

\* C1: at every moment at most one worker is between acquiring and
\* releasing the capacity-1 guard, whatever the interleaving of the calls
C1_SingleFlight ==
  \A v, w \in Workers : InCycle(v) /\ InCycle(w) => v = w

\* one worker is inside its transaction while the other calls runCleanup
C1_Witness ==
  /\ pc["w1"] = "commit"
  /\ pc["w2"] = "runCleanup"

\* C2: of two concurrent triggers exactly one runs the cycle; a call that
\* finds the guard held returns at once to the worker loop and changes
\* neither the tables, nor the last-result record, nor the guard, and
\* opens no transaction; a call that finds the guard free enters the cycle
C2_SkipLeavesStore ==
  [][\A w \in Workers :
       (pc[w] = "runCleanup" /\ pc'[w] # "runCleanup") =>
         IF \E v \in Workers \ {w} : InCycle(v)
         THEN /\ pc'[w] = "wait"
              /\ skipLogged'[w]
              /\ UNCHANGED <<tables, lastCleanup, cleanupRunning, cyc>>
         ELSE /\ pc'[w] = "tx"
              /\ cleanupRunning' = 1]_vars

\* a call has been skipped while the other worker's cycle, which has
\* deleted rows, is about to record its result
C2_Witness ==
  /\ skipLogged["w2"]
  /\ pc["w2"] = "wait"
  /\ pc["w1"] = "checkpoint"
  /\ \E t \in TableNames : cyc["w1"].pending[t] # {}

C4_Original ==
  \A w \in Workers :
    (retentionHours > 0 /\ pc[w] = "exit" /\ cyc[w].failed = "none") =>
      \A t \in TableNames : \A r \in tables[t] : r.at >= CycleCutoff(w)

\* C4 amended: once a cycle with cutoff C has committed, every row that
\* was in a table when the cycle's transaction began and is still there
\* has ingested_at >= C; a row flushed by an ingest request while the
\* cycle ran keeps the ingested_at the request took when it started
C4_SnapshotPruned ==
  \A w \in Workers :
    CycleCommitted(w) =>
      \A t \in TableNames :
        \A r \in tables[t] \cap cyc[w].snapshot[t] : r.at >= CycleCutoff(w)

\* a completed cycle that has removed rows
C4_Witness ==
  /\ retentionHours > 0
  /\ pc[MainWorker] = "exit"
  /\ cyc[MainWorker].failed = "none"
  /\ \E t \in TableNames : cyc[MainWorker].pending[t] # {}

\* C5 as stated: after a cycle in which any SQL step has failed, the
\* checkpoint included, the last-result record is what it was before
C5_Original ==
  \A w \in Workers :
    (pc[w] = "exit" /\ cyc[w].failed # "none") =>
      lastCleanup = cyc[w].prevLast

\* C5 amended: after a cycle whose BeginTx, DELETE or Commit has failed the
\* last-result record is what it was when the cycle started; a failed
\* CHECKPOINT is only logged, and the cycle records its own result
C5_FailureKeepsLastResult ==
  \A w \in Workers :
    pc[w] = "exit" =>
      /\ cyc[w].failed \in {"begin", "delete", "commit"} =>
           lastCleanup = cyc[w].prevLast
      /\ cyc[w].failed \in {"none", "checkpoint"} =>
           /\ lastCleanup # NoResult
           /\ lastCleanup.Timestamp = cyc[w].start
           /\ lastCleanup.Deleted =
                [t \in TableNames |-> Cardinality(cyc[w].pending[t])]

\* a cycle has failed at its commit after an earlier cycle recorded a result
C5_Witness ==
  \E w \in Workers :
    /\ pc[w] = "exit"
    /\ cyc[w].failed = "commit"
    /\ lastCleanup # NoResult

C7_WorkerIffStatsEnabled ==
  /\ InCycle(MainWorker) => StatsEnabled(retentionHours)
  /\ (pc[MainWorker] = "returned" /\ ~ctxCancelled) =>
       ~StatsEnabled(retentionHours)

\* C8: an enabled worker reaches the wait for its ticker only through a
\* call of runCleanup, and the call after the start runs a cycle; once the
\* context is cancelled the worker returns in the end; a worker that has
\* returned stays returned and starts no cycle
C8_WorkerLifecycle ==
  /\ [][/\ pc[MainWorker] = "start" =>
             pc'[MainWorker] \in {"start", "runCleanup", "returned"}
        /\ (pc[MainWorker] = "start" /\ pc'[MainWorker] = "returned") =>
             retentionHours = 0
        /\ (pc[MainWorker] # "wait" /\ pc'[MainWorker] = "wait") =>
             pc[MainWorker] = "exit"
        /\ pc[MainWorker] = "returned" =>
             /\ pc'[MainWorker] = "returned"
             /\ UNCHANGED <<lastCleanup, cleanupRunning>>
             /\ \A t \in TableNames : tables[t] \subseteq tables'[t]]_vars
  /\ ctxCancelled ~> (pc[MainWorker] = "returned")

\* the worker has run a cycle that recorded a result, and has returned
\* after the cancel
C8_Witness ==
  /\ ctxCancelled
  /\ pc[MainWorker] = "returned"
  /\ lastCleanup # NoResult


\* ------------------------------------------------------------------------
\* The admission gates
\* ------------------------------------------------------------------------
\* the paths each gate stands in front of, and the capacity it is configured with
BehindGate(g) ==
  IF g = "ingest" THEN {"/v1/traces", "/v1/metrics", "/v1/logs"} ELSE {"/query"}

Configured(g) ==
  IF g = "ingest" THEN maxConcurrentIngest ELSE maxConcurrentQuery

\* the requests whose handler is executing behind gate g
Executing(g) ==
  {r \in Requests : req[r].pc = "handler" /\ req[r].path \in BehindGate(g)}

AtGate(r, g) == req[r].pc = "sem" /\ req[r].path \in BehindGate(g)

\* C9: behind a gate of capacity N never more than N handlers execute, and
\* a request that reaches the gate while N handlers execute is answered 503
\* in that same step, by the gate, without waiting and without its handler
\* being run.
C9_GateBound ==
  /\ [](\A g \in Gates : Cardinality(Executing(g)) <= Configured(g))
  /\ [][\A g \in Gates : \A r \in Requests :
          (AtGate(r, g) /\ req'[r] # req[r]
             /\ Cardinality(Executing(g)) >= Configured(g))
          => /\ req'[r] = [pc |-> "done", by |-> "semaphore", status |-> 503]
             /\ permits' = permits]_vars

\* the third request to a gate of capacity two has been answered 503 by the
\* gate while the two admitted handlers are still executing
C9_Witness ==
  \E g \in Gates :
    /\ Configured(g) = 2
    /\ Cardinality(Executing(g)) = 2
    /\ \E r \in Requests :
         req[r] = [pc |-> "done", by |-> "semaphore", status |-> 503]

FilterOrder ==
  <<"requestID", "recovery", "sizeLimit", "gzip", "auth", "scope",
    "semaphore", "handler">>

FilterRank(f) == CHOOSE k \in 1..Len(FilterOrder) : FilterOrder[k] = f

\* the filter a request stands before at each position
StageFilter(stage) == IF stage = "sem" THEN "semaphore" ELSE stage

\* the stage that follows filter f on the way of a request to path
NextStage(path, f) ==
  LET p == Pipeline(path)
      k == CHOOSE j \in 1..Len(p) : p[j] = f
  IN IF k < Len(p) THEN p[k + 1] ELSE "none"

\* C11: the stages of every path come in the order requestID, recovery,
\* sizeLimit, gzip, auth, scope, semaphore, handler; a request moves from a
\* filter only to the next stage of its path or to its answer, an answered
\* request reaches no further stage, and a request answered by the auth or
\* the scope filter leaves every permit where it is.
C11_FilterOrder ==
  /\ [](\A path \in Paths :
          LET p == Pipeline(path)
          IN /\ Len(p) >= Len(ServerMiddlewares)
             /\ \A k \in 1..Len(ServerMiddlewares) : p[k] = FilterOrder[k]
             /\ \A j, k \in 1..Len(p) :
                  j < k => FilterRank(p[j]) < FilterRank(p[k]))
  /\ [][\A r \in Requests :
          req'[r] # req[r] =>
            CASE req[r].pc = "idle" ->
                   StageFilter(req'[r].pc) = NextStage(req'[r].path, "sizeLimit")
              [] req[r].pc = "done" -> req'[r].pc = "idle"
              [] OTHER ->
                   \/ /\ req'[r].pc = "done"
                      /\ req[r].pc \in {"gzip", "auth", "scope"} =>
                           /\ req'[r].by \in {req[r].pc, "mux"}
                           /\ permits' = permits
                   \/ /\ req'[r].pc \notin {"done", "idle"}
                      /\ req'[r].path = req[r].path
                      /\ StageFilter(req'[r].pc) =
                           NextStage(req[r].path, StageFilter(req[r].pc))]_vars

\* a request has been turned away by the auth filter while the gate of its
\* path is saturated, and the gate still holds exactly its N permits
C11_Witness ==
  \E r \in Requests : \E g \in Gates :
    /\ req[r] = [pc |-> "done", by |-> "auth", status |-> 401]
    /\ Cardinality(Executing(g)) = Configured(g)
    /\ permits[g] = Configured(g)
    /\ Configured(g) = 2


\* ------------------------------------------------------------------------
\* Scopes
\* ------------------------------------------------------------------------
\* mask s has every bit of mask r
ContainsAll(s, r) == BitAnd(s, r) = r

\* C14: Has(s, r) is true exactly when s contains admin or s contains every
\* bit of r, for all masks s and r over ingest, read and admin.
C14_HasExact ==
  hasCall.called =>
    (hasCall.result <=>
       (ContainsAll(hasCall.s, ScopeAdmin) \/ ContainsAll(hasCall.s, hasCall.r)))


\* ------------------------------------------------------------------------
\* Authentication and scope authorization
\* ------------------------------------------------------------------------
\* hex(SHA-256(key || pepper)) of a key
Sha256Of(key) == [sha256 |-> key \o Pepper]

\* the row of the store a key hashes to, if any
RowsOfKey(key) == {row \in KeyRows : row.key_hash = Sha256Of(key)}

Revoked(row) == row.revoked_at # Null

ExpiredAt(row, now) == row.expires_at # Null /\ now > row.expires_at

\* the scope each endpoint requires
EndpointScope(path) ==
  CASE path \in {"/stats", "/query"} -> ScopeRead
    [] path \in {"/v1/traces", "/v1/metrics", "/v1/logs"} -> ScopeIngest
    [] path \in {"/admin/keys", "/admin/keys/"} -> ScopeAdmin

\* a key's scopes carry a required scope: they hold it, or they hold admin
Carries(scopes, required) ==
  ContainsAll(scopes, required) \/ ContainsAll(scopes, ScopeAdmin)

\* C12: with auth enabled a request passes the auth filter only with a key
\* whose row is in the store, not revoked and not expired at that moment,
\* it passes the scope filter only if that row's scopes carry the scope of
\* its endpoint, and only a request that passed both has its handler run;
\* a request to /health has its handler run without any key.
C12_HandlerNeedsValidKey ==
  [][\A r \in AuthRequests :
       /\ (req[r].pc = "auth" /\ req'[r].pc = "scope") =>
            \E row \in RowsOfKey(req[r].key) :
              /\ ~Revoked(row)
              /\ ~ExpiredAt(row, clock)
              /\ req'[r].info.ID = row.id
              /\ req'[r].info.Scopes = row.scopes
       /\ (req[r].pc = "scope" /\ req'[r].pc = "handler") =>
            /\ req'[r].info = req[r].info
            /\ Carries(req[r].info.Scopes, EndpointScope(req[r].path))
       /\ (req[r].pc # "handler" /\ req'[r].pc = "handler") =>
            IF req'[r].path = "/health"
            THEN req[r].pc = "idle" /\ req'[r].key = <<>>
            ELSE req[r].pc = "scope"
       /\ (req[r].pc = "idle" /\ req'[r].pc # "idle" /\ req'[r].path # "/health")
            => req'[r].pc = "auth"]_vars

\* the handler of /stats is running for a key that holds the read scope only
C12_Witness ==
  \E r \in AuthRequests :
    /\ req[r].pc = "handler"
    /\ req[r].path = "/stats"
    /\ req[r].info.Scopes = ScopeRead
    /\ \E row \in KeyRows : row.id = req[r].info.ID /\ row.scopes = ScopeRead

\* the answer of the auth filter the claim states for a key
StatedAuthError(key, now) ==
  IF key = <<>> THEN "missing authorization"
  ELSE IF RowsOfKey(key) = {} THEN "invalid key"
  ELSE IF \E row \in RowsOfKey(key) : Revoked(row) THEN "key revoked"
  ELSE IF \E row \in RowsOfKey(key) : ExpiredAt(row, now) THEN "key expired"
  ELSE "none"

\* C13 as stated: a request without a key is answered 401 "missing
\* authorization", one with an unknown key 401 "invalid key", one with a
\* revoked key 401 "key revoked" (also when it has expired as well), one
\* with an expired key 401 "key expired".
C13_Original ==
  [][\A r \in AuthRequests :
       (req[r].pc = "auth" /\ req'[r] # req[r]) =>
         IF StatedAuthError(req[r].key, clock) = "none"
         THEN req'[r].pc = "scope"
         ELSE /\ req'[r].pc = "done"
              /\ req'[r].status = 401
              /\ req'[r].body = [error |-> StatedAuthError(req[r].key, clock)]]_vars

\* C13: the same, for keys that begin with mo11y_; a key that is present but
\* does not begin with mo11y_ is answered 401 "invalid key format" whatever
\* the store holds.
C13_AuthFailures ==
  [][\A r \in AuthRequests :
       (req[r].pc = "auth" /\ req'[r] # req[r]) =>
         LET key == req[r].key
             stated == IF key # <<>> /\ ~HasPrefix(key, Mo11yPrefix)
                       THEN "invalid key format"
                       ELSE StatedAuthError(key, clock)
         IN IF stated = "none"
            THEN req'[r].pc = "scope"
            ELSE /\ req'[r].pc = "done"
                 /\ req'[r].status = 401
                 /\ req'[r].body = [error |-> stated]]_vars

\* the only key of the store expired at hour 1 and was revoked at hour 2,
\* and a request that presented a key after that has been answered "key
\* revoked"
C13_Witness ==
  \E r \in AuthRequests :
    /\ req[r].pc = "done"
    /\ req[r].body = [error |-> "key revoked"]
    /\ clock = 2
    /\ Len(apiKeys) = 1
    /\ apiKeys[1].expires_at = 1
    /\ apiKeys[1].revoked_at = 2


\* ------------------------------------------------------------------------
\* The key store
\* ------------------------------------------------------------------------
\* the step in which the handler of a revoke request answers
RevokeAnswers(r) ==
  /\ req[r].pc = "handler"
  /\ req[r].call.method = "DELETE"
  /\ req'[r].pc = "done"

\* C15: a revoke of an id that is in the store is answered 200 whether or
\* not the key is revoked already, and when it is revoked already the store
\* is left as it was; 404 is the answer only for an id of no row.
C15_RevokeIdempotent ==
  [][\A r \in AuthRequests :
       RevokeAnswers(r) =>
         LET rows == {row \in KeyRows : row.id = req[r].call.id}
         IN IF rows = {}
            THEN req'[r].status = 404 /\ apiKeys' = apiKeys
            ELSE /\ req'[r].status = 200
                 /\ (\A row \in rows : Revoked(row)) => apiKeys' = apiKeys]_vars

\* C16: a key whose row is revoked is answered the revoked error by every
\* validation, and a revoked row stays revoked with the same hash whatever
\* is created, revoked, bootstrapped or validated afterwards.
C16_RevokedForever ==
  /\ [](\A key \in AllKeys :
          (\E row \in RowsOfKey(key) : Revoked(row))
            => ValidateKey(key, clock) = [err |-> "key revoked"])
  /\ [][\A k \in 1..Len(apiKeys) :
          Revoked(apiKeys[k]) =>
            /\ Len(apiKeys') >= k
            /\ apiKeys'[k].revoked_at = apiKeys[k].revoked_at
            /\ apiKeys'[k].key_hash = apiKeys[k].key_hash]_vars

\* a created key was revoked in an earlier hour, the bootstrap key's row is
\* still valid, and a request presenting a key has been answered "key
\* revoked"
C16_Witness ==
  \E r \in AuthRequests :
    /\ authPc = "serving"
    /\ bootstrapKey = LongKey
    /\ Len(apiKeys) = 2
    /\ ~Revoked(apiKeys[1])
    /\ Revoked(apiKeys[2])
    /\ apiKeys[2].revoked_at < clock
    /\ req[r].pc = "done"
    /\ req[r].body = [error |-> "key revoked"]

\* the fields of a row that never change once it is written
FixedFields(row) ==
  [id |-> row.id, name |-> row.name, key_hash |-> row.key_hash,
   key_prefix |-> row.key_prefix, scopes |-> row.scopes,
   created_at |-> row.created_at, expires_at |-> row.expires_at,
   created_by |-> row.created_by]

\* C17: no step removes a row of the key store, and no step changes a field
\* of a row other than revoked_at and last_used_at.
C17_RowsImmutable ==
  [][/\ Len(apiKeys') >= Len(apiKeys)
     /\ \A k \in 1..Len(apiKeys) :
          FixedFields(apiKeys'[k]) = FixedFields(apiKeys[k])]_vars

\* a row with an expiry has been used and then revoked
C17_Witness ==
  \E k \in 1..Len(apiKeys) :
    /\ apiKeys[k].expires_at # Null
    /\ apiKeys[k].last_used_at # Null
    /\ Revoked(apiKeys[k])


\* the answers in flight that carry a listing, and those that carry a key
ListAnswers ==
  {r \in AuthRequests : req[r].pc = "done" /\ "keys" \in DOMAIN req[r].body}

KeyAnswers ==
  {r \in AuthRequests : req[r].pc = "done" /\ "key" \in DOMAIN req[r].body}

\* C18: no entry of a list response holds the hash of a key or a text that
\* is the full key of a row of the store, whether the row was created by
\* the admin API or by bootstrap; a full key is written only into the 201
\* answer of the create request that generated it.
C18_NoKeyInList ==
  /\ \A r \in ListAnswers : \A e \in req[r].body.keys :
       /\ "key_hash" \notin DOMAIN e
       /\ \A row \in KeyRows : row.key_hash # Sha256Of(e.prefix)
  /\ \A r \in KeyAnswers :
       /\ req[r].status = 201
       /\ \E row \in RowsOfKey(req[r].body.key) : row.id = req[r].body.id

\* C19: the key a create request returns hashes, with the pepper, to the
\* row the request wrote, and as long as that row is not revoked ValidateKey
\* finds it and returns the id and the scopes the create request returned.
C19_CreatedKeyValidates ==
  /\ \A r \in KeyAnswers :
       \E row \in RowsOfKey(req[r].body.key) :
         /\ row.id = req[r].body.id
         /\ row.scopes = req[r].body.scopes
  /\ \A key \in GeneratedKeys : \A row \in RowsOfKey(key) :
       ~Revoked(row) =>
         ValidateKey(key, clock) =
           [err |-> "none", ID |-> row.id, Name |-> row.name,
            Scopes |-> row.scopes]
  /\ \A key \in GeneratedKeys : Cardinality(RowsOfKey(key)) <= 1

\* a key created through the admin API two hours ago, used since, is still
\* valid
C19_Witness ==
  \E key \in GeneratedKeys : \E row \in RowsOfKey(key) :
    /\ row.created_at = 0
    /\ row.last_used_at = 2
    /\ clock = 2
    /\ ~Revoked(row)
    /\ ValidateKey(key, clock).err = "none"

\* the row Bootstrap is to insert for a key
BootstrapRowOf(row, key) ==
  /\ row.name = "bootstrap-admin"
  /\ row.scopes = ScopeAdmin
  /\ row.created_by = "system"
  /\ row.key_hash = Sha256Of(key)
  /\ ~Revoked(row)

\* C20: Bootstrap called with a non-empty key on an empty key table leaves
\* the table with exactly one row, the admin row of that key; called in any
\* other case, a second start with the same key included, it leaves the
\* store as it was.
C20_BootstrapOnce ==
  [][(authPc = "boot" /\ authPc' # "boot") =>
       IF bootstrapKey # <<>> /\ apiKeys = <<>>
       THEN /\ Len(apiKeys') = 1
            /\ BootstrapRowOf(apiKeys'[1], bootstrapKey)
       ELSE apiKeys' = apiKeys]_vars

\* C21: a validation that fails (missing, malformed, unknown, revoked or
\* expired key: the request is answered 401 by the auth filter) changes no row
\* of the key store and starts no write; a row's last_used_at changes only in
\* a step of the background write that a successful validation of that very
\* key started; and that write, whether it succeeds or fails, leaves every
\* request as it is.
C21_FailedValidationWritesNothing ==
  [][ /\ \A r \in Requests :
           (req[r].pc = "auth" /\ req'[r] # req[r])
             => /\ apiKeys' = apiKeys
                /\ IF req'[r].pc = "done"
                   THEN touch' = touch
                   ELSE /\ ValidateKey(req[r].key, clock).err = "none"
                        /\ touch' = touch \cup {req'[r].info.ID}
      /\ \A k \in 1..Len(apiKeys) :
           (Len(apiKeys') >= k /\ apiKeys'[k].id = apiKeys[k].id
              /\ apiKeys'[k].last_used_at # apiKeys[k].last_used_at)
             => /\ apiKeys[k].id \in touch
                /\ apiKeys[k].id \notin touch'
      /\ (authPc' = authPc /\ touch' # touch /\ touch' \subseteq touch)
           => req' = req
    ]_vars

\* a request passed the auth filter and reached its handler although the
\* write of its key's last_used_at failed: the row was never written, no write
\* is pending, and a second row of the store is untouched as well
C21_Witness ==
  /\ Len(apiKeys) = 2
  /\ touch = {}
  /\ \E r \in Requests :
       /\ req[r].pc = "handler"
       /\ \A k \in 1..Len(apiKeys) : apiKeys[k].last_used_at = Null

\* ------------------------------------------------------------------------
\* One ingest call: handleTraces, handleLogs, handleMetrics and the store
\* call each of them makes (StoreTraces, StoreLogs, StoreMetrics).
\* ------------------------------------------------------------------------

MaxItems == 2      \* spans, log records or metrics in one request
MaxPoints == 2     \* data points of one metric
MaxSub == 1        \* events of one span, links of one span

\* the oneof Metric.Data of the OTLP metrics protocol
MetricKinds == {"gauge", "sum", "histogram", "exponential_histogram", "summary"}

\* the cases the type switch of appendMetricDataPoints has
SwitchCases == {"gauge", "sum", "histogram"}

SeqsUpTo(S, n) == UNION {[1..k -> S] : k \in 0..n}

Spans == [events : 0..MaxSub, links : 0..MaxSub]

LogRecords == {[body |-> "log"]}

Metrics == [data : MetricKinds, points : 0..MaxPoints]

ItemsOf(kind) ==
  CASE kind = "traces" -> Spans
    [] kind = "logs" -> LogRecords
    [] kind = "metrics" -> Metrics

\* a decoded Export*ServiceRequest: resources = 0 is a request without any
\* ResourceSpans / ResourceLogs / ResourceMetrics
OtlpRequests ==
  UNION {
    {[kind |-> kind, resources |-> 0, items |-> <<>>]} \cup
    {[kind |-> kind, resources |-> 1, items |-> items] :
        items \in SeqsUpTo(ItemsOf(kind), MaxItems)}
    : kind \in IngestKinds }

\* &StoreResult{}
EmptyResult == [Accepted |-> 0, Rejected |-> 0, Errors |-> <<>>]


AddError(r, msg) ==
  [Accepted |-> r.Accepted, Rejected |-> r.Rejected + 1,
   Errors |-> Append(r.Errors, msg)]

\* HasRejections that looks at the messages instead of the count
HasRejections_anyError(r) == Len(r.Errors) > 0

HasRejections(r) == r.Rejected > 0

\* "" | Errors[0] | "<n> errors: <Errors[0]>"
ErrorMessage(r) ==
  IF Len(r.Errors) = 0 THEN [count |-> 0, text |-> ""]
  ELSE IF Len(r.Errors) = 1 THEN [count |-> 1, text |-> r.Errors[1]]
  ELSE [count |-> Len(r.Errors), text |-> r.Errors[1]]

\* result.Accepted++
Accept(r) == [r EXCEPT !.Accepted = @ + 1]

\* a failed AppendRow of an event or link row, counted as a rejection
SubRowError_rejects(r, msg) == AddError(r, msg)

\* a failed AppendRow of an event or link row: only the message is kept
SubRowError(r, msg) == [r EXCEPT !.Errors = Append(@, msg)]

RECURSIVE SubRowErrors(_, _, _)
SubRowErrors(r, msg, n) ==
  IF n = 0 THEN r ELSE SubRowErrors(SubRowError(r, msg), msg, n - 1)

RECURSIVE AddErrors(_, _, _)
AddErrors(r, msg, n) ==
  IF n = 0 THEN r ELSE AddErrors(AddError(r, msg), msg, n - 1)

RECURSIVE Accepts(_, _)
Accepts(r, n) == IF n = 0 THEN r ELSE Accepts(Accept(r), n - 1)

NoRows == [t \in TableNames |-> 0]

\* what the AppendRow calls made for one item may do: the item's own row fails
\* or not; of its events, links or data points some number fail
AppendOutcomes(kind, item) ==
  CASE kind = "traces" ->
         [row : BOOLEAN, events : 0..item.events, links : 0..item.links]
    [] kind = "logs" -> [row : BOOLEAN, events : {0}, links : {0}]
    [] kind = "metrics" -> [row : {TRUE}, events : 0..item.points, links : {0}]

\* a span row that failed without the `continue` of line 123
SpanErrorSkips_no == FALSE

\* lines 121-124: when the AppendRow of the span row fails the round ends
\* with `continue`, before the loops over the span's events and links
SpanErrorSkips == TRUE

\* the row of table t appended for the span at position i of the request:
\* a span row carries the span's own (trace_id, span_id), an event or link
\* row those of the span it is appended for
RowFor(t, i) == [table |-> t, span |-> i]

\* the body of the span loop of StoreTraces for the span at position st.i
appendSpan(st, span, o) ==
  LET failed == [result |-> AddError(st.result, "span"), buf |-> st.buf,
                 rows |-> st.rows]
      own == IF o.row
             THEN [result |-> Accept(st.result),
                   buf |-> [st.buf EXCEPT !["spans"] = @ + 1],
                   rows |-> st.rows \cup {RowFor("spans", st.i)}]
             ELSE failed
      events == span.events - o.events
      links == span.links - o.links
  IN IF ~o.row /\ SpanErrorSkips
     THEN failed
     ELSE [result |-> SubRowErrors(SubRowErrors(own.result, "event", o.events),
                                   "link", o.links),
           buf |-> [own.buf EXCEPT !["span_events"] = @ + events,
                                   !["span_links"] = @ + links],
           rows |-> own.rows
                      \cup (IF events > 0
                            THEN {RowFor("span_events", st.i)} ELSE {})
                      \cup (IF links > 0
                            THEN {RowFor("span_links", st.i)} ELSE {})]

\* the body of the log record loop of StoreLogs for one record
appendLogRecord(st, o) ==
  IF ~o.row
  THEN [result |-> AddError(st.result, "log"), buf |-> st.buf,
        rows |-> st.rows]
  ELSE [result |-> Accept(st.result),
        buf |-> [st.buf EXCEPT !["logs"] = @ + 1], rows |-> st.rows]

\* appendMetricDataPoints for one metric, of whose data points `failed` fail
appendMetricDataPoints(st, m, failed) ==
  IF m.data \in SwitchCases
  THEN [result |-> Accepts(AddErrors(st.result, m.data, failed),
                           m.points - failed),
        buf |-> [st.buf EXCEPT !["metrics"] = @ + (m.points - failed)],
        rows |-> st.rows]
  ELSE st

appendItem(kind, st, item, o) ==
  CASE kind = "traces" -> appendSpan(st, item, o)
    [] kind = "logs" -> appendLogRecord(st, o)
    [] kind = "metrics" -> appendMetricDataPoints(st, item, o.events)

\* the checks an ingest handler makes before it calls the store
PreChecks == {"method", "content-type", "read", "unmarshal"}

PreCheckOrder_swapped == <<"content-type", "method", "read", "unmarshal">>

\* the order in which the handler makes them
PreCheckOrder == <<"method", "content-type", "read", "unmarshal">>

\* the check at which the handler returns, of the checks in `fails` that a
\* request does not pass; "ok" when it passes them all
FirstFailing(fails) ==
  IF fails = {} THEN "ok"
  ELSE LET k == CHOOSE k \in 1..Len(PreCheckOrder) :
                  /\ PreCheckOrder[k] \in fails
                  /\ \A j \in 1..(k - 1) : PreCheckOrder[j] \notin fails
       IN PreCheckOrder[k]

PreStatus(pre) ==
  CASE pre = "method" -> 405
    [] pre = "content-type" -> 415
    [] pre = "read" -> 400
    [] pre = "unmarshal" -> 400

NoPartial == [set |-> FALSE, rejected |-> 0, message |-> ErrorMessage(EmptyResult)]

OtlpCall(at, rq, fails, called, i, result, buf, committed, err, status,
         partial) ==
  [pc |-> at, request |-> rq, fails |-> fails, rows |-> {},
   called |-> called, i |-> i, result |-> result, buf |-> buf,
   committed |-> committed, err |-> err, status |-> status,
   partial |-> partial]

otlpFrame == <<storeVars, gateVars, authVars, qry, hreq, mainVars>>

\* the handler up to the store call, and the store call up to its loop
OtlpReceive ==
  /\ otlp.pc = "idle"
  /\ \E rq \in OtlpRequests, fails \in SUBSET PreChecks, opened \in BOOLEAN :
       LET pre == FirstFailing(fails)
       IN otlp' =
            IF pre # "ok"
            THEN OtlpCall("answered", rq, fails, FALSE, 0, EmptyResult, NoRows,
                          NoRows, FALSE, PreStatus(pre), NoPartial)
            ELSE IF rq.resources = 0
            THEN OtlpCall("returned", rq, fails, TRUE, 0, EmptyResult, NoRows,
                          NoRows, FALSE, 0, NoPartial)
            ELSE IF ~opened
            THEN OtlpCall("returned", rq, fails, TRUE, 0, EmptyResult, NoRows,
                          NoRows, TRUE, 0, NoPartial)
            ELSE OtlpCall("append", rq, fails, TRUE, 1, EmptyResult, NoRows,
                          NoRows, FALSE, 0, NoPartial)
  /\ UNCHANGED otlpFrame

\* one round of the loop over spans, log records or metrics
OtlpAppend ==
  /\ otlp.pc = "append"
  /\ otlp.i <= Len(otlp.request.items)
  /\ LET kind == otlp.request.kind
         item == otlp.request.items[otlp.i]
     IN \E o \in AppendOutcomes(kind, item) :
          LET st == appendItem(kind,
                               [result |-> otlp.result, buf |-> otlp.buf,
                                rows |-> otlp.rows, i |-> otlp.i],
                               item, o)
          IN otlp' = [otlp EXCEPT !.i = @ + 1, !.result = st.result,
                                  !.buf = st.buf, !.rows = st.rows]
  /\ UNCHANGED otlpFrame

\* the rows in the tables once the appenders were flushed in order up to the
\* one that failed (failed = 0: none did) and the deferred Close calls flushed
\* the appenders in `closed`
Flushed(tabs, buf, failed, closed) ==
  [t \in TableNames |->
     IF \E k \in 1..Len(tabs) :
          /\ tabs[k] = t
          /\ \/ failed = 0
             \/ k < failed
             \/ k > failed /\ k \in closed
     THEN buf[t] ELSE 0]


\* the Flush calls after the loop, the deferred Close calls and the return
OtlpFlush ==
  /\ otlp.pc = "append"
  /\ otlp.i > Len(otlp.request.items)
  /\ LET tabs == IngestTables(otlp.request.kind)
     IN \E failed \in 0..Len(tabs), closed \in SUBSET (1..Len(tabs)) :
          /\ closed \subseteq {k \in 1..Len(tabs) : failed # 0 /\ k > failed}
          /\ otlp' = [otlp EXCEPT
                        !.pc = "returned",
                        !.err = (failed # 0),
                        !.committed = Flushed(tabs, otlp.buf, failed, closed)]
  /\ UNCHANGED otlpFrame

\* the handler after the store call returned
OtlpRespond ==
  /\ otlp.pc = "returned"
  /\ otlp' = [otlp EXCEPT
                !.pc = "answered",
                !.status = IF otlp.err THEN 503 ELSE 200,
                !.partial =
                   IF ~otlp.err /\ HasRejections(otlp.result)
                   THEN [set |-> TRUE, rejected |-> otlp.result.Rejected,
                         message |-> ErrorMessage(otlp.result)]
                   ELSE NoPartial]
  /\ UNCHANGED otlpFrame

\* the server waits for the next request
OtlpNext ==
  /\ otlp.pc = "answered"
  /\ otlp' = [pc |-> "idle"]
  /\ UNCHANGED otlpFrame

InitIngest ==
  /\ StoreIdle
  /\ GateIdle
  /\ AuthIdle
  /\ IoIdle

NextIngest ==
  \/ OtlpReceive
  \/ OtlpAppend
  \/ OtlpFlush
  \/ OtlpRespond
  \/ OtlpNext

SpecIngest == InitIngest /\ [][NextIngest]_vars

\* the store call of the request under study has returned
Returned == otlp.pc \in {"returned", "answered"} /\ otlp.called

RECURSIVE SumPoints(_)
SumPoints(ms) ==
  IF ms = <<>> THEN 0 ELSE ms[1].points + SumPoints(Tail(ms))

\* the data points of a request: its spans, its log records, or the data
\* points of all its metrics
DataPoints(rq) ==
  IF rq.kind = "metrics" THEN SumPoints(rq.items) ELSE Len(rq.items)

\* C22: when the store call of an ingest request returns a result, accepted +
\* rejected equals the number of data points of the request.
C22_CountsAddUp ==
  (Returned /\ ~otlp.err)
    => otlp.result.Accepted + otlp.result.Rejected = DataPoints(otlp.request)

\* C23: a trace request is all-or-nothing: when StoreTraces returns an
\* infrastructure error no row of the request is in any table, and when it
\* returns a result the span rows in the table are the accepted spans and
\* every event and link row appended with them is in its table too.
C23_AllOrNothing ==
  (Returned /\ otlp.request.kind = "traces")
    => IF otlp.err
       THEN otlp.committed = NoRows
       ELSE /\ otlp.committed["spans"] = otlp.result.Accepted
            /\ otlp.committed = otlp.buf

\* C24: once the handler has answered a request for which it called the
\* store, the status is 200 if the call returned a result, whatever the
\* counts, and 503 if and only if it returned an error; the response carries
\* a partial success exactly when rejected > 0, and then with that count.
C24_StatusFromResult ==
  (otlp.pc = "answered")
    => /\ otlp.called /\ ~otlp.err => otlp.status = 200
       /\ otlp.status = 503 <=> (otlp.called /\ otlp.err)
       /\ otlp.partial.set <=>
            (otlp.called /\ ~otlp.err /\ otlp.result.Rejected > 0)
       /\ otlp.partial.set => otlp.partial.rejected = otlp.result.Rejected

\* every span of the request was rejected and the answer is still 200, with
\* a partial success that counts them all
C24_Witness ==
  /\ otlp.pc = "answered"
  /\ otlp.called /\ ~otlp.err
  /\ otlp.request.kind = "traces"
  /\ otlp.result.Accepted = 0
  /\ otlp.result.Rejected = MaxItems
  /\ otlp.status = 200
  /\ otlp.partial.set

\* C25: in one round of the span loop either the span row is appended and the
\* span is accepted, whatever happens to its event and link rows, or the span
\* row fails and the span alone is rejected; so at every moment accepted is
\* the number of span rows appended and rejected the number that failed.
C25_SubRowsDoNotCount ==
  [][ (otlp.pc = "append" /\ otlp.request.kind = "traces"
         /\ otlp'.pc = "append")
        => /\ otlp'.i = otlp.i + 1
           /\ IF otlp'.buf["spans"] = otlp.buf["spans"] + 1
              THEN /\ otlp'.result.Accepted = otlp.result.Accepted + 1
                   /\ otlp'.result.Rejected = otlp.result.Rejected
              ELSE /\ otlp'.buf = otlp.buf
                   /\ otlp'.result.Accepted = otlp.result.Accepted
                   /\ otlp'.result.Rejected = otlp.result.Rejected + 1
           /\ otlp'.result.Accepted = otlp'.buf["spans"]
           /\ otlp'.result.Rejected = otlp.i - otlp'.buf["spans"]
    ]_vars

\* a span whose event row and link row both failed is accepted, nothing is
\* rejected, and the answer carries no partial success
C25_Witness ==
  /\ otlp.pc = "answered"
  /\ otlp.called /\ ~otlp.err
  /\ otlp.request.kind = "traces"
  /\ Len(otlp.request.items) = 1
  /\ otlp.result.Accepted = 1
  /\ otlp.result.Rejected = 0
  /\ Len(otlp.result.Errors) = 2
  /\ otlp.committed["span_events"] = 0
  /\ ~otlp.partial.set

\* ------------------------------------------------------------------------
\* The query gate: handleQuery.  A statement is a sequence of characters.
\* ------------------------------------------------------------------------

LowerCase == <<"a", "b", "c", "d", "e", "f", "g", "h", "i", "j", "k", "l", "m",
               "n", "o", "p", "q", "r", "s", "t", "u", "v", "w", "x", "y", "z">>

UpperCase == <<"A", "B", "C", "D", "E", "F", "G", "H", "I", "J", "K", "L", "M",
               "N", "O", "P", "Q", "R", "S", "T", "U", "V", "W", "X", "Y", "Z">>

DigitChars == <<"0", "1", "2", "3", "4", "5", "6", "7", "8", "9">>

\* unicode.IsSpace on the characters a statement is made of here
WhiteSpace == {" ", "\t", "\n", "\r"}

\* strings.ToUpper
ToUpper(s) ==
  [k \in 1..Len(s) |->
     IF \E a \in 1..Len(LowerCase) : LowerCase[a] = s[k]
     THEN UpperCase[CHOOSE a \in 1..Len(LowerCase) : LowerCase[a] = s[k]]
     ELSE s[k]]

\* strings.TrimSpace
TrimSpace(s) ==
  LET inside == {k \in 1..Len(s) : s[k] \notin WhiteSpace}
  IN IF inside = {} THEN <<>>
     ELSE SubSeq(s, CHOOSE a \in inside : \A b \in inside : a <= b,
                    CHOOSE a \in inside : \A b \in inside : a >= b)

\* strings.Contains
Contains(s, sub) ==
  \E k \in 1..(Len(s) - Len(sub) + 1) : SubSeq(s, k, k + Len(sub) - 1) = sub

\* the "%d" of fmt.Sprintf
RECURSIVE FormatNat(_)
FormatNat(n) ==
  IF n < 10 THEN <<DigitChars[n + 1]>>
  ELSE FormatNat(n \div 10) \o <<DigitChars[(n % 10) + 1]>>

\* a row limit one larger
queryRowLimit_more == 1000 + 1

queryRowLimit == 1000

KwSelect == <<"S", "E", "L", "E", "C", "T">>
KwWith == <<"W", "I", "T", "H">>
KwLimit == <<"L", "I", "M", "I", "T">>

\* the blocked keywords without SHOW
blockedKeywords_noShow ==
  << <<"E", "X", "P", "L", "A", "I", "N">>,
     <<"D", "E", "S", "C", "R", "I", "B", "E">>,
     <<"P", "R", "A", "G", "M", "A">>,
     <<"A", "T", "T", "A", "C", "H">>,
     <<"D", "E", "T", "A", "C", "H">> >>

blockedKeywords ==
  << <<"E", "X", "P", "L", "A", "I", "N">>,
     <<"D", "E", "S", "C", "R", "I", "B", "E">>,
     <<"S", "H", "O", "W">>,
     <<"P", "R", "A", "G", "M", "A">>,
     <<"A", "T", "T", "A", "C", "H">>,
     <<"D", "E", "T", "A", "C", "H">> >>

\* the checks of handleQuery on the trimmed statement, in their order: the
\* error it answers with, or "" when the statement goes on to the engine
Validate(sql) ==
  LET upperSQL == ToUpper(sql)
  IN IF sql = <<>> THEN "missing sql parameter"
     ELSE IF ~HasPrefix(upperSQL, KwSelect) /\ ~HasPrefix(upperSQL, KwWith)
     THEN "only SELECT queries allowed"
     ELSE IF Contains(sql, <<";">>)
     THEN "multi-statement queries not allowed"
     ELSE IF \E k \in 1..Len(blockedKeywords) :
               Contains(upperSQL, blockedKeywords[k])
     THEN "keyword not allowed"
     ELSE ""

\* the statement handed to QueryContext
AddLimit(sql) ==
  IF ~Contains(ToUpper(sql), KwLimit)
  THEN sql \o <<" ">> \o KwLimit \o <<" ">> \o FormatNat(queryRowLimit)
  ELSE sql

\* --- what the engine does with the statement it is given ---

\* the words of a statement, split at single spaces
RECURSIVE Split(_, _)
Split(s, word) ==
  IF s = <<>> THEN IF word = <<>> THEN <<>> ELSE <<word>>
  ELSE IF s[1] \in WhiteSpace
  THEN (IF word = <<>> THEN <<>> ELSE <<word>>) \o Split(Tail(s), <<>>)
  ELSE Split(Tail(s), Append(word, s[1]))

IsNumber(w) ==
  /\ w # <<>>
  /\ \A k \in 1..Len(w) : \E d \in 1..Len(DigitChars) : DigitChars[d] = w[k]

RECURSIVE ParseNat(_)
ParseNat(w) ==
  IF w = <<>> THEN 0
  ELSE 10 * ParseNat(SubSeq(w, 1, Len(w) - 1))
       + ((CHOOSE d \in 1..Len(DigitChars) : DigitChars[d] = w[Len(w)]) - 1)

\* the words of a statement that are not inside a "--" comment
CodeWords(s) ==
  LET ws == Split(s, <<>>)
      cs == {k \in 1..Len(ws) : HasPrefix(ws[k], <<"-", "-">>)}
  IN IF cs = {} THEN ws
     ELSE SubSeq(ws, 1, (CHOOSE a \in cs : \A b \in cs : a <= b) - 1)

\* the row limit of the LIMIT clause of a statement, Null if it has none
EngineLimit(s) ==
  LET ws == CodeWords(s)
      ls == {k \in 1..(Len(ws) - 1) :
               ToUpper(ws[k]) = KwLimit /\ IsNumber(ws[k + 1])}
  IN IF ls = {} THEN Null
     ELSE ParseNat(ws[(CHOOSE a \in ls : \A b \in ls : a >= b) + 1])

\* the rows a statement returns of the rows its source holds
EngineRows(s, available) ==
  IF EngineLimit(s) # Null /\ EngineLimit(s) < available
  THEN EngineLimit(s) ELSE available

\* --- the statements submitted ---

StmtLeads == {<<>>, <<" ">>}

StmtHeads ==
  { <<"s", "e", "l", "e", "c", "t">>,
    <<"S", "E", "L", "E", "C", "T">>,
    <<"W", "i", "t", "h">>,
    <<"d", "e", "l", "e", "t", "e">>,
    <<"e", "x", "p", "l", "a", "i", "n">> }

StmtColumns ==
  { <<"x">>,
    <<"r", "a", "t", "e", "_", "l", "i", "m", "i", "t">>,
    <<"s", "h", "o", "w", "n">> }

StmtTails ==
  { <<>>,
    <<" ">>,
    <<" ", "l", "i", "m", "i", "t", " ", "5">>,
    <<" ", "L", "I", "M", "I", "T", " ", "5">>,
    <<";">>,
    <<" ", "-", "-", " ", "c">> }

FromT == <<" ", "f", "r", "o", "m", " ", "t">>

\* the values r.FormValue("sql") can have: absent, blank, or a statement
Statements ==
  {<<>>, <<" ", " ">>} \cup
  {lead \o head \o <<" ">> \o col \o FromT \o tail :
     lead \in StmtLeads, head \in StmtHeads, col \in StmtColumns,
     tail \in StmtTails}

Methods == {"POST", "GET"}

\* the rows the queried table holds
RowsAvailable == {0, queryRowLimit, queryRowLimit + 1}

Query(at, method, sql, invoked, executed, status, count, error) ==
  [pc |-> at, method |-> method, sql |-> sql, invoked |-> invoked,
   executed |-> executed, status |-> status, count |-> count, error |-> error]

qryFrame == <<storeVars, gateVars, authVars, otlp, hreq, mainVars>>

\* handleQuery from its start to the call of QueryContext
QueryGate ==
  /\ qry.pc = "idle"
  /\ \E method \in Methods, form \in Statements :
       LET sql == TrimSpace(form)
       IN qry' =
            IF method # "POST"
            THEN Query("answered", method, form, FALSE, <<>>, 405, 0, "")
            ELSE IF Validate(sql) # ""
            THEN Query("answered", method, form, FALSE, <<>>, 400, 0,
                       Validate(sql))
            ELSE Query("engine", method, form, TRUE, AddLimit(sql), 0, 0, "")
  /\ UNCHANGED qryFrame

\* QueryContext, the row loop and the response
QueryEngine ==
  /\ qry.pc = "engine"
  /\ \E outcome \in {"error", "scan", "rows", "ok"},
        available \in RowsAvailable :
       qry' =
         CASE outcome = "error" ->
                [qry EXCEPT !.pc = "answered", !.status = 400,
                            !.error = "engine"]
           [] outcome = "scan" ->
                [qry EXCEPT !.pc = "answered", !.status = 500,
                            !.error = "failed to scan row"]
           [] outcome = "rows" ->
                [qry EXCEPT !.pc = "answered", !.status = 500,
                            !.error = "error reading results"]
           [] outcome = "ok" ->
                [qry EXCEPT !.pc = "answered", !.status = 200,
                            !.count = EngineRows(qry.executed, available)]
  /\ UNCHANGED qryFrame

\* the server waits for the next statement
QueryNext ==
  /\ qry.pc = "answered"
  /\ qry' = [pc |-> "idle"]
  /\ UNCHANGED qryFrame

InitQuery ==
  /\ StoreIdle
  /\ GateIdle
  /\ AuthIdle
  /\ IoIdle

NextQuery ==
  \/ QueryGate
  \/ QueryEngine
  \/ QueryNext

SpecQuery == InitQuery /\ [][NextQuery]_vars

\* strings.ToLower
ToLower(s) ==
  [k \in 1..Len(s) |->
     IF \E a \in 1..Len(UpperCase) : UpperCase[a] = s[k]
     THEN LowerCase[CHOOSE a \in 1..Len(UpperCase) : UpperCase[a] = s[k]]
     ELSE s[k]]

\* sub occurs in s, whatever the case of the letters
ContainsFold(s, sub) == Contains(ToLower(s), ToLower(sub))

BeginsFold(s, word) ==
  Len(s) >= Len(word) /\ ToLower(SubSeq(s, 1, Len(word))) = ToLower(word)

BlockedWords ==
  { <<"e", "x", "p", "l", "a", "i", "n">>,
    <<"d", "e", "s", "c", "r", "i", "b", "e">>,
    <<"s", "h", "o", "w">>,
    <<"p", "r", "a", "g", "m", "a">>,
    <<"a", "t", "t", "a", "c", "h">>,
    <<"d", "e", "t", "a", "c", "h">> }

\* the statements the query gate is stated to let through
Admissible(form) ==
  LET t == TrimSpace(form)
  IN /\ t # <<>>
     /\ BeginsFold(t, <<"s", "e", "l", "e", "c", "t">>)
          \/ BeginsFold(t, <<"w", "i", "t", "h">>)
     /\ \A k \in 1..Len(t) : t[k] # ";"
     /\ \A w \in BlockedWords : ~ContainsFold(t, w)

\* C26: a statement posted to /query is passed to the engine only if it is
\* admissible (after trimming: non-empty, begins with SELECT or WITH, no ';',
\* none of the blocked words, all case-insensitive); every other posted
\* statement is answered 400 and the engine is not invoked.
C26_OnlyAdmissibleReachEngine ==
  (qry.pc \in {"engine", "answered"} /\ qry.method = "POST")
    => /\ qry.invoked <=> Admissible(qry.sql)
       /\ ~qry.invoked => (qry.pc = "answered" /\ qry.status = 400)

\* a statement that begins with select but names a column "shown" was
\* answered 400 without the engine being invoked
C26_Witness ==
  /\ qry.pc = "answered"
  /\ qry.method = "POST"
  /\ ~qry.invoked
  /\ qry.status = 400
  /\ BeginsFold(TrimSpace(qry.sql), <<"s", "e", "l", "e", "c", "t">>)
  /\ Contains(qry.sql, <<"s", "h", "o", "w", "n">>)
  /\ ~Contains(qry.sql, <<";">>)

LimitSuffix == <<" ", "L", "I", "M", "I", "T", " ", "1", "0", "0", "0">>

\* C27 as stated: a statement without a LIMIT clause of its own is executed
\* with " LIMIT 1000" appended and answered with at most 1000 rows; a
\* statement with a LIMIT clause of its own is executed unchanged.
C27_Original ==
  (qry.pc \in {"engine", "answered"} /\ qry.invoked)
    => LET t == TrimSpace(qry.sql)
       IN IF EngineLimit(t) # Null
          THEN qry.executed = t
          ELSE /\ qry.executed = t \o LimitSuffix
               /\ (qry.pc = "answered" /\ qry.status = 200) => qry.count <= 1000

\* C27: a statement whose text does not contain the letters LIMIT in any case
\* is executed with " LIMIT 1000" appended, and every statement that contains
\* them anywhere (a LIMIT clause, an identifier, a literal) is executed
\* unchanged; the response of a statement to which the clause was appended
\* holds at most 1000 rows unless the statement contains a "--" comment.
C27_LimitAppendedUnlessMentioned ==
  (qry.pc \in {"engine", "answered"} /\ qry.invoked)
    => LET t == TrimSpace(qry.sql)
       IN /\ qry.executed =
               IF ContainsFold(t, <<"l", "i", "m", "i", "t">>)
               THEN t ELSE t \o LimitSuffix
          /\ (/\ qry.pc = "answered" /\ qry.status = 200
              /\ ~ContainsFold(t, <<"l", "i", "m", "i", "t">>)
              /\ ~Contains(t, <<"-", "-">>))
               => qry.count <= 1000

\* a statement without a LIMIT clause that names a column "rate_limit" was
\* executed as it is and answered with 1001 rows
C27_Witness ==
  /\ qry.pc = "answered"
  /\ qry.invoked
  /\ qry.status = 200
  /\ EngineLimit(TrimSpace(qry.sql)) = Null
  /\ Contains(qry.sql, <<"r", "a", "t", "e", "_", "l", "i", "m", "i", "t">>)
  /\ qry.executed = TrimSpace(qry.sql)
  /\ qry.count = 1001

\* ------------------------------------------------------------------------
\* One request body on its way through recovery, sizeLimit, gzip, the route's
\* filters and an ingest handler.
\* ------------------------------------------------------------------------

MaxRatio == 2      \* decompressed size / compressed size of a gzip body

\* a body cap one byte smaller
maxRequestSize_less == 10 * 1024 * 1024 - 1

maxRequestSize == 10 * 1024 * 1024

\* Content-Length of the requests sent
BodySizes == {0, 1024, maxRequestSize - 1, maxRequestSize, maxRequestSize + 1}

EncGzip == <<"g", "z", "i", "p">>

\* the header of a client that sends a gzip body, in two spellings
GzipSpellings == { EncGzip, <<"G", "Z", "i", "p">> }

\* the Content-Encoding header: absent, gzip, zstd
ContentEncodings == { <<>>, <<"z", "s", "t", "d">> } \cup GzipSpellings

\* a comparison that takes the case of the letters into account
EqualFold_exact(a, b) == a = b

\* strings.EqualFold
EqualFold(a, b) == ToLower(a) = ToLower(b)

\* what the bytes of a body sent as gzip are: a well-formed stream, bytes
\* that do not start with a gzip header, or a gzip header followed by a
\* stream that is corrupt
GzipBodies == {"valid", "badheader", "corrupt"}

\* what gzipMiddleware answers itself (0: it calls the next filter)
gzipMiddleware(encoding, bytes) ==
  IF encoding = <<>> THEN 0
  ELSE IF ~EqualFold(encoding, EncGzip) THEN 415
  ELSE IF bytes = "badheader" THEN 400
  ELSE 0

\* http.MaxBytesReader: the bytes a full read of a body of `wire` bytes
\* yields, and whether it ends in an error
MaxBytesReader(wire) ==
  [bytes |-> IF wire > maxRequestSize THEN maxRequestSize ELSE wire,
   err |-> wire > maxRequestSize]

\* io.ReadAll(r.Body) in an ingest handler: the bytes taken from the
\* connection, the bytes handed to the handler, and the error
ReadAll(wire, gzipped, bytes, ratio) ==
  LET lim == MaxBytesReader(wire)
  IN IF ~gzipped
     THEN [wireRead |-> lim.bytes, bodyRead |-> lim.bytes, err |-> lim.err]
     ELSE IF bytes = "corrupt"
     THEN [wireRead |-> lim.bytes, bodyRead |-> 0, err |-> TRUE]
     ELSE [wireRead |-> lim.bytes, bodyRead |-> lim.bytes * ratio,
           err |-> lim.err]

\* the filters downstream of recoveryMiddleware, where a panic is recovered
Downstream == {"sizeLimit", "gzip", "auth", "scope", "semaphore", "handler"}

\* what a filter of the route answers when it turns a request away
RejectStatus(stage) ==
  CASE stage = "auth" -> 401
    [] stage = "scope" -> 403
    [] stage = "semaphore" -> 503

BodyPath == "/v1/traces"

\* the requests sent: fault is the stage that panics, if any
BodyRequests ==
  {rq \in [wire : BodySizes, encoding : ContentEncodings,
           bytes : GzipBodies \cup {"plain"}, ratio : 1..MaxRatio,
           fault : Downstream \cup {"none"}] :
     /\ rq.bytes = "plain" <=> rq.encoding \notin GzipSpellings
     /\ rq.bytes = "plain" => rq.ratio = 1
     /\ rq.bytes \in {"valid", "corrupt"} => rq.wire > 0}

hreqFrame == <<storeVars, gateVars, authVars, otlp, qry, mainVars>>

Stage == Pipeline(BodyPath)[hreq.at]

\* the request is answered by a stage
BodyAnswer(by, status) ==
  hreq' = [hreq EXCEPT !.pc = "answered", !.by = by, !.status = status,
                       !.reached = @ \cup {Stage}]

\* the stage calls next.ServeHTTP
BodyPass ==
  [hreq EXCEPT !.at = @ + 1, !.reached = @ \cup {Stage}]

BodyArrive ==
  /\ hreq.pc = "idle"
  /\ \E rq \in BodyRequests :
       hreq' = [pc |-> "run", request |-> rq, at |-> 1, reached |-> {},
                header |-> rq.encoding, gzipped |-> FALSE, limited |-> FALSE,
                wireRead |-> 0, bodyRead |-> 0, readErr |-> FALSE,
                by |-> "", status |-> 0, recovered |-> hreq.recovered]
  /\ UNCHANGED hreqFrame

Panics == hreq.pc = "run" /\ hreq.request.fault = Stage

\* requestIDMiddleware, and recoveryMiddleware installing its deferred recover
BodyOuter ==
  /\ hreq.pc = "run"
  /\ Stage \in {"requestID", "recovery"}
  /\ hreq' = BodyPass
  /\ UNCHANGED hreqFrame

\* a panic in a stage downstream of recoveryMiddleware unwinds to its recover
BodyPanic ==
  /\ Panics
  /\ "recovery" \in hreq.reached
  /\ hreq' = [hreq EXCEPT !.pc = "answered", !.by = "recovery",
                          !.status = RecoveryStatus, !.recovered = TRUE,
                          !.reached = @ \cup {Stage}]
  /\ UNCHANGED hreqFrame

BodySizeLimit ==
  /\ hreq.pc = "run"
  /\ Stage = "sizeLimit"
  /\ ~Panics
  /\ hreq' = [BodyPass EXCEPT !.limited = TRUE]
  /\ UNCHANGED hreqFrame

BodyGzip ==
  /\ hreq.pc = "run"
  /\ Stage = "gzip"
  /\ ~Panics
  /\ LET status == gzipMiddleware(hreq.header, hreq.request.bytes)
     IN IF status # 0
        THEN BodyAnswer("gzip", status)
        ELSE hreq' = IF hreq.header = <<>> THEN BodyPass
                     ELSE [BodyPass EXCEPT !.gzipped = TRUE, !.header = <<>>]
  /\ UNCHANGED hreqFrame

\* auth, scope and the semaphore: each lets the request on or turns it away
BodyRoute ==
  /\ hreq.pc = "run"
  /\ Stage \in {"auth", "scope", "semaphore"}
  /\ ~Panics
  /\ \E pass \in BOOLEAN :
       IF pass THEN hreq' = BodyPass
       ELSE BodyAnswer(Stage, RejectStatus(Stage))
  /\ UNCHANGED hreqFrame

\* an ingest handler: it reads the body, decodes it and calls the store
BodyHandler ==
  /\ hreq.pc = "run"
  /\ Stage = "handler"
  /\ ~Panics
  /\ LET rd == ReadAll(hreq.request.wire, hreq.gzipped, hreq.request.bytes,
                       hreq.request.ratio)
     IN \E status \in {200, 400, 503} :
          hreq' = [hreq EXCEPT
                     !.pc = "answered", !.by = "handler",
                     !.reached = @ \cup {Stage},
                     !.wireRead = rd.wireRead, !.bodyRead = rd.bodyRead,
                     !.readErr = rd.err,
                     !.status = IF rd.err THEN 400 ELSE status]
  /\ UNCHANGED hreqFrame

\* the server waits for the next request
BodyNext ==
  /\ hreq.pc = "answered"
  /\ hreq' = [pc |-> "idle", recovered |-> hreq.recovered]
  /\ UNCHANGED hreqFrame

InitBody ==
  /\ StoreIdle
  /\ AuthIdle
  /\ authEnabled \in BOOLEAN
  /\ maxConcurrentIngest = 1
  /\ maxConcurrentQuery = 1
  /\ permits = [g \in Gates |-> 0]
  /\ req = [r \in Requests |-> IdleRequest]
  /\ otlp = [pc |-> "idle"]
  /\ qry = [pc |-> "idle"]
  /\ MainIdle
  /\ hreq = [pc |-> "idle", recovered |-> FALSE]

NextBody ==
  \/ BodyArrive
  \/ BodyOuter
  \/ BodyPanic
  \/ BodySizeLimit
  \/ BodyGzip
  \/ BodyRoute
  \/ BodyHandler
  \/ BodyNext

SpecBody == InitBody /\ [][NextBody]_vars

TenMiB == 10 * 2^20

\* the handler of the request under study has read the body
HandlerRead ==
  hreq.pc = "answered" /\ hreq.by = "handler"

\* C28 as stated: no handler reads more than 10 MiB of request body, with or
\* without gzip; a body of exactly 10 MiB is read in full; a body of 10 MiB + 1
\* bytes yields a read error, answered 400.
C28_Original ==
  HandlerRead
    => /\ hreq.bodyRead <= TenMiB
       /\ (hreq.request.wire = TenMiB /\ hreq.request.bytes = "plain")
            => (hreq.bodyRead = TenMiB /\ ~hreq.readErr)
       /\ hreq.request.wire = TenMiB + 1
            => (hreq.readErr /\ hreq.status = 400)

\* C28: no handler takes more than 10 MiB of body bytes from the connection,
\* gzip or not, and for a body sent without gzip that is all it reads: such a
\* body of exactly 10 MiB is read in full; a body of 10 MiB + 1 bytes, gzip or
\* not, yields a read error, answered 400.  (The cap is on the bytes sent:
\* what a gzip body decompresses to is not capped.)
C28_WireBytesCapped ==
  HandlerRead
    => /\ hreq.wireRead <= TenMiB
       /\ hreq.request.bytes = "plain" => hreq.bodyRead <= TenMiB
       /\ (hreq.request.wire = TenMiB /\ hreq.request.bytes = "plain")
            => (hreq.bodyRead = TenMiB /\ ~hreq.readErr)
       /\ hreq.request.wire = TenMiB + 1
            => (hreq.readErr /\ hreq.status = 400)

\* a gzip body of exactly 10 MiB that decompresses to twice as much was read
\* in full by the handler and answered 200
C28_Witness ==
  /\ HandlerRead
  /\ hreq.request.bytes = "valid"
  /\ hreq.request.wire = TenMiB
  /\ hreq.wireRead = TenMiB
  /\ hreq.bodyRead = 2 * TenMiB
  /\ hreq.status = 200

RouteStages == {"auth", "scope", "semaphore", "handler"}

SentAsGzip == hreq.request.encoding \in GzipSpellings

NoPanic == hreq.pc = "answered" /\ hreq.request.fault = "none"

\* C29 as stated: another Content-Encoding than gzip is answered 415 and a
\* malformed gzip body 400, both without reaching auth, the semaphore or the
\* handler; a valid gzip body reaches the handler without the header and
\* decompressed.
C29_Original ==
  NoPanic
    => /\ (hreq.request.encoding # <<>> /\ ~SentAsGzip)
            => /\ hreq.status = 415
               /\ hreq.reached \cap RouteStages = {}
       /\ (SentAsGzip /\ hreq.request.bytes \in {"badheader", "corrupt"})
            => /\ hreq.status = 400
               /\ hreq.reached \cap RouteStages = {}
       /\ (SentAsGzip /\ hreq.request.bytes = "valid"
             /\ "handler" \in hreq.reached)
            => /\ hreq.header = <<>>
               /\ hreq.gzipped

\* C29: another Content-Encoding than gzip (in any case) is answered 415, and
\* a gzip body whose header is malformed 400, both by the gzip filter and
\* without reaching auth, the semaphore or the handler; a gzip body with a
\* well-formed header reaches the route's filters and, if they let it on, the
\* handler, with the header removed and a decompressing body: a well-formed
\* stream is read decompressed, a corrupt one fails in the handler's read,
\* which answers 400.
C29_GzipHeaderChecked ==
  NoPanic
    => /\ (hreq.request.encoding # <<>> /\ ~SentAsGzip)
            => /\ hreq.status = 415 /\ hreq.by = "gzip"
               /\ hreq.reached \cap RouteStages = {}
       /\ (SentAsGzip /\ hreq.request.bytes = "badheader")
            => /\ hreq.status = 400 /\ hreq.by = "gzip"
               /\ hreq.reached \cap RouteStages = {}
       /\ (SentAsGzip /\ hreq.request.bytes \in {"valid", "corrupt"})
            => /\ hreq.by # "gzip"
               /\ hreq.reached \cap RouteStages # {}
               /\ hreq.header = <<>>
               /\ hreq.gzipped
       /\ (SentAsGzip /\ hreq.request.bytes = "corrupt"
             /\ hreq.by = "handler")
            => (hreq.readErr /\ hreq.status = 400)
       /\ (SentAsGzip /\ hreq.request.bytes = "valid" /\ hreq.by = "handler"
             /\ hreq.request.wire <= TenMiB)
            => /\ ~hreq.readErr
               /\ hreq.bodyRead = hreq.request.wire * hreq.request.ratio

\* a gzip body with a well-formed header and a corrupt stream, sent with the
\* header spelled GZip, passed auth, scope and the semaphore and was answered
\* 400 by the handler
C29_Witness ==
  /\ NoPanic
  /\ hreq.request.encoding \in GzipSpellings \ {EncGzip}
  /\ hreq.request.bytes = "corrupt"
  /\ {"auth", "semaphore", "handler"} \subseteq hreq.reached
  /\ hreq.by = "handler"
  /\ hreq.status = 400

MaxActive == 1     \* HTTP requests in flight when the signal arrives

\* context.WithTimeout(context.Background(), 5*time.Second), in seconds
shutdownTimeout == 5

\* a main that closes the telemetry store before it drains the server
ShutdownSteps_storeFirst == <<"cancel", "closeStore", "drain", "closeAuth">>

\* what main does after <-quit, in the order of its statements
ShutdownSteps == <<"cancel", "drain", "closeAuth", "closeStore">>

MainStep == ShutdownSteps[shutdown.at]

\* main moves on to its next statement, or returns after the last
MainAdvance(s) ==
  IF s.at = Len(ShutdownSteps)
  THEN [s EXCEPT !.pc = "exited"]
  ELSE [s EXCEPT !.pc = "shutting", !.at = @ + 1]

shutdownFrame == <<gateVars, authVars, otlp, qry, hreq, scopeCall,
                   retentionHours, clock, tables, cleanupRunning, lastCleanup,
                   pc, cyc, skipLogged, ing, nextId, lastResp>>

\* a request is being served when the signal has not arrived yet
HttpBegin ==
  /\ shutdown.pc = "serving"
  /\ shutdown.active < MaxActive
  /\ shutdown' = [shutdown EXCEPT !.active = @ + 1]
  /\ UNCHANGED <<shutdownFrame, ctxCancelled>>

\* a request in flight is answered
HttpEnd ==
  /\ shutdown.pc # "exited"
  /\ shutdown.active > 0
  /\ shutdown' = [shutdown EXCEPT !.active = @ - 1]
  /\ UNCHANGED <<shutdownFrame, ctxCancelled>>

\* <-quit
Signal ==
  /\ shutdown.pc = "serving"
  /\ shutdown' = [shutdown EXCEPT !.pc = "shutting", !.at = 1]
  /\ UNCHANGED <<shutdownFrame, ctxCancelled>>

\* cancel()
MainCancel ==
  /\ shutdown.pc = "shutting"
  /\ MainStep = "cancel"
  /\ ctxCancelled' = TRUE
  /\ shutdown' = [MainAdvance(shutdown) EXCEPT !.done = Append(@, "cancel")]
  /\ UNCHANGED shutdownFrame

\* srv.Shutdown(shutdownCtx) is called: the listeners are closed
MainDrainBegin ==
  /\ shutdown.pc = "shutting"
  /\ MainStep = "drain"
  /\ shutdown' = [shutdown EXCEPT !.pc = "draining",
                                  !.done = Append(@, "drain")]
  /\ UNCHANGED <<shutdownFrame, ctxCancelled>>

\* a second passes while Shutdown waits for the requests in flight
DrainTick ==
  /\ shutdown.pc = "draining"
  /\ shutdown.active > 0
  /\ shutdown.waited < shutdownTimeout
  /\ shutdown' = [shutdown EXCEPT !.waited = @ + 1]
  /\ UNCHANGED <<shutdownFrame, ctxCancelled>>

\* Shutdown returns: no request is left, or shutdownCtx has expired
MainDrainEnd ==
  /\ shutdown.pc = "draining"
  /\ shutdown.active = 0 \/ shutdown.waited = shutdownTimeout
  /\ shutdown' = MainAdvance(shutdown)
  /\ UNCHANGED <<shutdownFrame, ctxCancelled>>

\* if authProvider != nil { authProvider.Close() }
MainCloseAuth ==
  /\ shutdown.pc = "shutting"
  /\ MainStep = "closeAuth"
  /\ shutdown' = IF authEnabled
                 THEN [MainAdvance(shutdown) EXCEPT
                         !.authOpen = FALSE, !.done = Append(@, "closeAuth")]
                 ELSE MainAdvance(shutdown)
  /\ UNCHANGED <<shutdownFrame, ctxCancelled>>

\* store.Close()
MainCloseStore ==
  /\ shutdown.pc = "shutting"
  /\ MainStep = "closeStore"
  /\ shutdown' = [MainAdvance(shutdown) EXCEPT
                    !.storeOpen = FALSE, !.done = Append(@, "closeStore")]
  /\ UNCHANGED <<shutdownFrame, ctxCancelled>>

\* the retention worker's goroutine, which ends with the process
WorkerRuns ==
  /\ shutdown.pc # "exited"
  /\ WorkerStep(MainWorker)

InitShutdown ==
  /\ StoreInit
  /\ AuthIdle
  /\ authEnabled \in BOOLEAN
  /\ maxConcurrentIngest = 1
  /\ maxConcurrentQuery = 1
  /\ permits = [g \in Gates |-> 0]
  /\ req = [r \in Requests |-> IdleRequest]
  /\ otlp = [pc |-> "idle"]
  /\ qry = [pc |-> "idle"]
  /\ hreq = [pc |-> "idle"]
  /\ scopeCall = [pc |-> "idle"]
  /\ shutdown = [pc |-> "serving", at |-> 0, done |-> <<>>, waited |-> 0,
                 active |-> 0, authOpen |-> authEnabled, storeOpen |-> TRUE]

NextShutdown ==
  \/ WorkerRuns
  \/ Tick
  \/ HttpBegin
  \/ HttpEnd
  \/ Signal
  \/ MainCancel
  \/ MainDrainBegin
  \/ DrainTick
  \/ MainDrainEnd
  \/ MainCloseAuth
  \/ MainCloseStore

SpecShutdown == InitShutdown /\ [][NextShutdown]_vars

IsPrefix(p, q) == Len(p) <= Len(q) /\ SubSeq(q, 1, Len(p)) = p

\* the order stated for the shutdown, without the auth store when auth is off
StatedOrder ==
  IF authEnabled THEN <<"cancel", "drain", "closeAuth", "closeStore">>
  ELSE <<"cancel", "drain", "closeStore">>

\* C31: what main has done since the signal is at every moment a beginning
\* of: cancel the worker's context, ask the server to drain, close the auth
\* store, close the telemetry store; the drain waits at most 5 seconds; the
\* context is cancelled exactly when the cancel step was taken; and while
\* the server has not been asked to drain both stores are open.
C31_ShutdownOrder ==
  /\ IsPrefix(shutdown.done, StatedOrder)
  /\ shutdown.waited <= 5
  /\ ctxCancelled <=> (shutdown.done # <<>> /\ shutdown.done[1] = "cancel")
  /\ (Len(shutdown.done) < 2) => (shutdown.storeOpen /\ shutdown.authOpen = authEnabled)
  /\ shutdown.pc = "exited" => shutdown.done = StatedOrder

\* main has returned after a drain that gave up after 5 seconds with a
\* request still in flight, and closed both stores after it
C31_Witness ==
  /\ shutdown.pc = "exited"
  /\ authEnabled
  /\ shutdown.waited = 5
  /\ shutdown.active > 0
  /\ ~shutdown.authOpen
  /\ ~shutdown.storeOpen

\* C33: when the telemetry store has been closed, no retention cycle is
\* executing.
C33_NoCycleAtClose ==
  ~shutdown.storeOpen => \A w \in Workers : ~InCycle(w)

\* C32: an ingest handler answers with the status of the first check that
\* fails, in the order method (405), Content-Type (415), body read (400),
\* protobuf parse (400), store call (503), whatever later checks the request
\* would fail too; a request answered 405, 415 or 400 never reached the store
\* and has no row in any table.
C32_FirstFailingCheck ==
  (otlp.pc = "answered")
    => /\ "method" \in otlp.fails => otlp.status = 405
       /\ ("method" \notin otlp.fails /\ "content-type" \in otlp.fails)
            => otlp.status = 415
       /\ (otlp.fails # {} /\ otlp.fails \subseteq {"read", "unmarshal"})
            => otlp.status = 400
       /\ otlp.fails = {} => otlp.status = (IF otlp.err THEN 503 ELSE 200)
       /\ otlp.status \in {405, 415, 400}
            => /\ ~otlp.called
               /\ otlp.buf = NoRows
               /\ otlp.committed = NoRows

\* a request with the wrong method, the wrong Content-Type and a body that
\* does not parse was answered 405
C32_Witness ==
  /\ otlp.pc = "answered"
  /\ otlp.fails = {"method", "content-type", "unmarshal"}
  /\ otlp.status = 405
  /\ Len(otlp.request.items) > 0

\* C34: every cycle that acquired the guard releases it on every exit path,
\* so the guard holds exactly as many tokens as there are cycles executing,
\* and a trigger is skipped as already in progress only while another
\* worker's cycle is executing, never after that cycle has ended.
C34_GuardReleased ==
  [][/\ cleanupRunning' = Cardinality({w \in Workers : InCycle(w)'})
     /\ \A w \in Workers :
          (pc[w] = "runCleanup" /\ pc'[w] = "wait")
            => \E v \in Workers \ {w} : InCycle(v)
     /\ \A w \in Workers :
          (pc[w] = "exit" /\ pc'[w] = "wait") => GuardFree']_vars

\* a cycle of one worker ended on a failure path (nothing was recorded) and
\* a trigger that arrived after it acquired the guard
C34_Witness ==
  /\ pc["w1"] = "wait"
  /\ ~skipLogged["w1"]
  /\ lastCleanup = NoResult
  /\ pc["w2"] = "tx"
  /\ cleanupRunning = 1

\* C35: a /stats response never shows a partially filled cleanup record: the
\* cleanup section is absent while no cycle has committed, and otherwise its
\* last_run, duration and five counts are those of the one record the last
\* committed cycle published.
C35_StatsShowsWholeRecord ==
  [][(lastResp' # lastResp /\ lastResp'.op = "stats")
       => lastResp'.cleanup =
            IF lastCleanup = NoResult THEN NoSection
            ELSE CleanupSection(lastCleanup, {})]_vars

\* the rows of request id in the tables tabs, each with its table
RowsOf(tabs, id) ==
  UNION {{[table |-> t, row |-> r] : r \in {x \in tabs[t] : x.id = id}} :
           t \in TableNames}

RequestIds == 1..MaxIngest

\* all rows of one request carry the same ingested_at
SameIngestedAt(tabs) ==
  \A id \in RequestIds :
    \A x, y \in RowsOf(tabs, id) : x.row.at = y.row.at

\* worker w commits its transaction in this step
Commits(w) == pc[w] = "commit" /\ pc'[w] = "checkpoint"

C37_SubRowsOfAcceptedSpans ==
  (otlp.pc \in {"append", "returned", "answered"}
     /\ otlp.request.kind = "traces")
    => /\ \A r \in otlp.rows : RowFor("spans", r.span) \in otlp.rows
       /\ Cardinality({r \in otlp.rows : r.table = "spans"})
            = otlp.result.Accepted

\* of two spans with an event each the first was rejected and the second
\* accepted: the only event row appended is the second span's
C37_Witness ==
  /\ otlp.pc = "answered"
  /\ otlp.request.kind = "traces"
  /\ Len(otlp.request.items) = 2
  /\ otlp.request.items[1].events > 0
  /\ otlp.result.Rejected = 1
  /\ otlp.rows = {RowFor("spans", 2), RowFor("span_events", 2)}

\* Bootstrap has stored the key of MO11Y_BOOTSTRAP_KEY as the admin key
\* "bootstrap-admin" and nobody has revoked it
Bootstrapped ==
  /\ authPc = "serving"
  /\ bootstrapKey # <<>>
  /\ \E row \in KeyRows :
       /\ row.name = "bootstrap-admin"
       /\ row.key_hash = hashKey(bootstrapKey)
       /\ row.revoked_at = Null

\* C38: after a successful bootstrap with a non-empty key K on an empty key
\* store, a request presenting K passes the auth filter and carries the
\* admin scope, which the scope filter of the admin routes accepts.
C38_BootstrapKeyAuthenticates ==
  [][\A r \in AuthRequests :
       (Bootstrapped /\ req[r].pc = "auth" /\ req[r].key = bootstrapKey
          /\ req'[r] # req[r])
         => /\ req'[r].pc = "scope"
            /\ req'[r].info.Scopes = ScopeAdmin
            /\ Has(req'[r].info.Scopes, ScopeAdmin)]_vars

\* ------------------------------------------------------------------------
\* Scope.String, ParseScopes and splitScopes.  A text is the sequence of
\* its characters.
\* ------------------------------------------------------------------------
MaxParts == 3      \* segments of a text given to ParseScopes

IngestText == <<"i", "n", "g", "e", "s", "t">>
ReadText == <<"r", "e", "a", "d">>
AdminText == <<"a", "d", "m", "i", "n">>
NoneText == <<"n", "o", "n", "e">>

\* Go's a | b on non-negative integers
RECURSIVE BitOr(_, _)
BitOr(a, b) ==
  IF a = 0 THEN b
  ELSE IF b = 0 THEN a
  ELSE (IF a % 2 = 1 \/ b % 2 = 1 THEN 1 ELSE 0)
         + 2 * BitOr(a \div 2, b \div 2)

\* result := scopes[0]; for i := 1 ...: result += "," + scopes[i]
RECURSIVE JoinComma(_)
JoinComma(parts) ==
  IF Len(parts) = 0 THEN <<>>
  ELSE IF Len(parts) = 1 THEN parts[1]
  ELSE JoinComma(SubSeq(parts, 1, Len(parts) - 1))
         \o <<",">> \o parts[Len(parts)]

\* func (s Scope) String() string
String(s) ==
  LET scopes ==
        (IF BitAnd(s, ScopeIngest) # 0 THEN <<IngestText>> ELSE <<>>)
          \o (IF BitAnd(s, ScopeRead) # 0 THEN <<ReadText>> ELSE <<>>)
          \o (IF BitAnd(s, ScopeAdmin) # 0 THEN <<AdminText>> ELSE <<>>)
  IN IF Len(scopes) = 0 THEN NoneText ELSE JoinComma(scopes)

\* a split that forgets the segment after the last comma
SplitTail_dropped(s, start, result) == result

\* splitScopes after its loop: the segment after the last comma, if any
SplitTail(s, start, result) ==
  IF start <= Len(s)
  THEN Append(result, SubSeq(s, start, Len(s)))
  ELSE result

\* the loop of splitScopes at position i, the current segment beginning at
\* start: a comma ends the segment, which is kept unless it is empty
RECURSIVE SplitFrom(_, _, _, _)
SplitFrom(s, i, start, result) ==
  IF i > Len(s) THEN SplitTail(s, start, result)
  ELSE IF s[i] = ","
  THEN SplitFrom(s, i + 1, i + 1,
                 IF i > start
                 THEN Append(result, SubSeq(s, start, i - 1))
                 ELSE result)
  ELSE SplitFrom(s, i + 1, start, result)

splitScopes(s) == SplitFrom(s, 1, 1, <<>>)

\* the switch of ParseScopes: the bit of a segment, 0 for any other text
PartScope(part) ==
  CASE part = IngestText -> ScopeIngest
    [] part = ReadText -> ScopeRead
    [] part = AdminText -> ScopeAdmin
    [] OTHER -> 0

RECURSIVE OrParts(_, _)
OrParts(scope, parts) ==
  IF parts = <<>> THEN scope
  ELSE OrParts(BitOr(scope, PartScope(Head(parts))), Tail(parts))

\* func ParseScopes(s string) Scope
ParseScopes(s) == OrParts(0, splitScopes(s))

\* the segments a client may write between commas: the three scopes, the
\* rendering of the empty mask, nothing, and words ParseScopes does not know
ScopeWords ==
  {IngestText, ReadText, AdminText, NoneText, <<>>,
   <<"w", "r", "i", "t", "e">>, <<"A", "d", "m", "i", "n">>,
   <<" ", "r", "e", "a", "d">>}

\* a call of Scope.String on any mask, whose text is then parsed, or a call
\* of ParseScopes on the segments `parts` joined by commas
ScopeCalls ==
  {[pc |-> "call", op |-> "String", s |-> m, parts |-> <<>>, text |-> <<>>,
    result |-> 0] : m \in ScopeMasks}
    \cup {[pc |-> "call", op |-> "ParseScopes", s |-> 0, parts |-> ps,
           text |-> JoinComma(ps), result |-> 0] :
            ps \in SeqsUpTo(ScopeWords, MaxParts)}

scopeFrame == <<storeVars, gateVars, authVars, otlp, qry, hreq, shutdown>>

\* Scope.String returns
ScopeRender ==
  /\ scopeCall.pc = "call"
  /\ scopeCall.op = "String"
  /\ scopeCall' = [scopeCall EXCEPT !.pc = "rendered", !.text = String(scopeCall.s)]
  /\ UNCHANGED scopeFrame

\* ParseScopes returns, for a client's text or for the text just rendered
ScopeParse ==
  /\ \/ scopeCall.pc = "call" /\ scopeCall.op = "ParseScopes"
     \/ scopeCall.pc = "rendered"
  /\ scopeCall' = [scopeCall EXCEPT !.pc = "parsed",
                                    !.result = ParseScopes(scopeCall.text)]
  /\ UNCHANGED scopeFrame

InitParse ==
  /\ StoreIdle
  /\ GateIdle
  /\ AuthIdle
  /\ otlp = [pc |-> "idle"]
  /\ qry = [pc |-> "idle"]
  /\ hreq = [pc |-> "idle"]
  /\ shutdown = [pc |-> "serving"]
  /\ scopeCall \in ScopeCalls

NextParse ==
  \/ ScopeRender
  \/ ScopeParse

SpecParse == InitParse /\ [][NextParse]_vars

\* the mask of the scopes named by at least one of the segments
KnownMask(parts) ==
  (IF \E k \in 1..Len(parts) : parts[k] = IngestText THEN ScopeIngest ELSE 0)
    + (IF \E k \in 1..Len(parts) : parts[k] = ReadText THEN ScopeRead ELSE 0)
    + (IF \E k \in 1..Len(parts) : parts[k] = AdminText THEN ScopeAdmin ELSE 0)

\* C39: rendering and parsing round-trip, ParseScopes(String(s)) = s for
\* every mask s in 0..7; parsing a comma-separated text yields the mask of
\* the known scopes among its segments, ignoring unknown words and empty
\* segments, and 0 for a text with no known scope.
C39_ScopesRoundTrip ==
  (scopeCall.pc = "parsed")
    => IF scopeCall.op = "String"
       THEN scopeCall.result = scopeCall.s
       ELSE scopeCall.result = KnownMask(scopeCall.parts)

\* the mask 7 was rendered as "ingest,read,admin" and parsed back
C39_Witness ==
  /\ scopeCall.pc = "parsed"
  /\ scopeCall.op = "String"
  /\ scopeCall.s = 7
  /\ scopeCall.text = IngestText \o <<",">> \o ReadText \o <<",">> \o AdminText
  /\ scopeCall.result = 7

====
